---- MODULE Spec2Model ----
(***************************************************************************)
(* Monte Carlo tree search of src/src/tree_search.rs, run over the         *)
(* subtraction game of src/src/nim.rs and two further implementors of the  *)
(* SearchableState trait that differ from it only in game_result.          *)
(*                                                                         *)
(* The tree is an arena: nodes[i] is the i-th node created, nodes[1] the   *)
(* root; an Rc/Weak reference is the index of the node it points to.       *)
(* Option<X> is a sequence of length 0 (None) or 1 (Some).                 *)
(* wins (f32) is kept in units of 1/WinUnit, which is exact for winner     *)
(* lists of length 1 and 2.                                                *)
(***************************************************************************)
EXTENDS Integers, Sequences, FiniteSets, TLC

\* ---------------------------------------------------------------- bounds
\* largest total of a root NimState
MaxTotal == 4
\* largest max_iters handed to find_best_move
MaxIters == 6
\* the same two bounds for the two-call specification
CallsTotal == 3
CallsIters == 2
\* number of states of the generator that stands for XorShiftRng
RngStates == 8
\* the first two bounds again for the specification of any caller
AnyTotal == 3
AnyIters == 4
\* the card game is followed up to the turn with this index (the turns of
\* all players counted from 0)
MaxTurnIndex == 1
\* number of seeds the context's rng of a card game is started from
GameSeeds == 1
\* card statics first accessed by other code before or while CARDS is built
MaxEarlyAccess == 1
\* players_for_target is computed for games of up to this many players
MaxPlayers == 4
\* the pair of searches that differ in the root's player_just_moved: Nim
\* totals up to TwinTotal, max_iters up to TwinIters
TwinTotal == 3
TwinIters == 4

VARIABLES
    domain,       \* which SearchableState implementor T is
    root_state,   \* find_best_move's root_state argument
    max_iters,    \* find_best_move's max_iters argument
    debug,        \* find_best_move's debug argument
    nodes,        \* the search tree (arena of SearchNode)
    iter,         \* number of completed iterations of the main loop
    pc,           \* position inside find_best_move
    node_ref,     \* the working node of the current iteration
    sim,          \* mut_state of simulate_until_terminal
    result,       \* the Winners list of the current rollout
    best_move,    \* Option: the move find_best_move returned
    panic_msg,    \* Option: the message of the panic that aborted the call
    expansions,   \* history: iterations so far in which a node was created
    dump,         \* what print_debug_move_tree printed, a block per node
    rollout_moves, \* history: moves made by the current rollout
    call,         \* 1 or 2: which call of find_best_move is running
    seed,         \* the seed this call's rng was made from (two-call spec)
    rng,          \* the state of this call's rng (two-call spec)
    first_move,   \* best_move of the first call
    first_seed,   \* seed of the first call
    first_tree,   \* the search tree the first call ended with
    game,         \* the card Game (game.rs) that run_game or a rollout plays
    ctx_rng,      \* EvalContext::rng of that game
    game_panic,   \* Option: the message of the panic that stopped that game
    card_id_counter, \* CARD_ID_COUNTER of cards.rs
    identifier,   \* per card static: its identifier, 0 while not initialised
    forced,       \* how many elements of the vec! of CARDS are evaluated
    cards_static, \* Option: CARDS once its initialiser has returned
    early_accesses \* card statics first accessed from outside CARDS

vars == <<domain, root_state, max_iters, debug, nodes, iter, pc, node_ref,
          sim, result, best_move, panic_msg, expansions, dump, rollout_moves,
          call, seed,
          rng, first_move, first_seed, first_tree, game, ctx_rng, game_panic,
          card_id_counter, identifier, forced, cards_static, early_accesses>>

search_vars == <<nodes, iter, pc, node_ref, sim, result, best_move, panic_msg,
                 expansions, dump, rollout_moves>>
input_vars == <<domain, root_state, max_iters, debug>>
call_vars == <<call, seed, first_move, first_seed, first_tree>>
card_vars == <<game, ctx_rng, game_panic>>
statics_vars == <<card_id_counter, identifier, forced, cards_static,
                  early_accesses>>

None == << >>
Some(x) == <<x>>

\* ------------------------------------------------------------- the domains
Domains == {"nim", "tied", "nowin"}

\* and an implementor that is NimState but for an empty all_players()
AllDomains == Domains \cup {"noplayers"}

\* NimState::all_players
all_players(s) == IF domain = "noplayers" THEN << >> ELSE <<0, 1>>

\* NimState::active_player
active_player(s) == Some(s.player_turn)

\* a filter that lets one more than the total through
all_moves_beyond_total(s) == SelectSeq(<<1, 2, 3>>, LAMBDA i : i <= s.total + 1)

\* NimState::all_moves: (1..4).filter(|i| i <= total)
all_moves(s) == SelectSeq(<<1, 2, 3>>, LAMBDA i : i <= s.total)

\* NimState::make_move: a new state, the receiver untouched
make_move(s, choice) ==
    [total |-> s.total - choice, player_turn |-> (s.player_turn + 1) % 2]

\* NimState::make_move_mut: the same transform applied in place
make_move_mut(s, choice) ==
    [s EXCEPT !.total = @ - choice, !.player_turn = (@ + 1) % 2]

\* a call of NimState::make_move: the receiver (&self) after the call and
\* the state returned
make_move_call(s, choice) == [self |-> s, ret |-> make_move(s, choice)]

\* NimState::game_result: the player who brought the total to 0 wins
nim_game_result(s) ==
    IF s.total = 0 THEN Some(<<(s.player_turn + 1) % 2>>) ELSE None

\* SearchableState::game_result of the implementor T.
\*   "nim"   NimState.
\*   "tied"  a game the second player can at best draw: when player 1 made
\*           the last move both players are listed (as Game::game_result
\*           lists every player with a positive score share).
\*   "nowin" an implementor whose finished games list no winner at all.
game_result(s) ==
    CASE domain = "nim" -> nim_game_result(s)
      [] domain = "tied" ->
            IF s.total # 0 THEN None
            ELSE IF s.player_turn = 0 THEN Some(<<0, 1>>) ELSE Some(<<0>>)
      [] domain = "nowin" -> IF s.total = 0 THEN Some(<< >>) ELSE None
      [] domain = "noplayers" -> nim_game_result(s)

\* ---------------------------------------------------------------- the rng
\* util::randomly_seeded_weak_rng: a generator seeded from thread_rng, so
\* any of its states
randomly_seeded_weak_rng == 0..(RngStates - 1)

\* the step every draw makes the generator take (a full cycle through its
\* states while RngStates is a power of two)
next_rng(r) == (5 * r + 3) % RngStates

\* Rng::gen_range(0, n): a value in 0..n-1 fixed by the generator's state
gen_range(r, n) == r % n

\* ------------------------------------------------------------ SearchNode
Root == 1

\* Vec::contains
Contains(seq, x) == \E i \in 1..Len(seq) : seq[i] = x

\* one whole win, in the unit wins is kept in
WinUnit == 2

\* an update that multiplies by the number of winners where it should divide
update_with_result_times_len(node, winners) ==
    [node EXCEPT
        !.visits = @ + 1,
        !.wins = IF Contains(winners, node.player_just_moved)
                 THEN @ + WinUnit * Len(winners)
                 ELSE @]

\* an update that credits a whole win however many winners there are
update_with_result_whole_win(node, winners) ==
    [node EXCEPT
        !.visits = @ + 1,
        !.wins = IF Contains(winners, node.player_just_moved)
                 THEN @ + WinUnit
                 ELSE @]

\* SearchNode::update_with_result
update_with_result(node, winners) ==
    [node EXCEPT
        !.visits = @ + 1,
        !.wins = IF Contains(winners, node.player_just_moved)
                 THEN @ + WinUnit \div Len(winners)
                 ELSE @]

RECURSIVE walk(_, _)
\* the inner fn walk of SearchNode::ancestors
walk(ns, parent_ref) ==
    IF parent_ref = None THEN << >>
    ELSE <<parent_ref[1]>> \o walk(ns, ns[parent_ref[1]].parent)

\* an ancestor walk that stops at the parent
ancestors_parent_only(ns, n) ==
    IF ns[n].parent = None THEN << >> ELSE <<ns[n].parent[1]>>

\* SearchNode::ancestors: the strict ancestors, nearest first
ancestors(ns, n) == walk(ns, ns[n].parent)

\* scale of the fixed-point value that stands for the f32 expectation
ExpScale == 10000

\* floor(ExpScale * ln n) for n = 1..12
LnTable == <<0, 6931, 10986, 13862, 16094, 17917, 19459, 20794, 21972,
             23025, 23978, 24849>>

RECURSIVE NewtonSqrt(_, _)
NewtonSqrt(n, x) ==
    LET y == (x + n \div x) \div 2
    IN  IF y >= x THEN x ELSE NewtonSqrt(n, y)

\* floor of the square root
Isqrt(n) == IF n = 0 THEN 0 ELSE NewtonSqrt(n, n)

\* f32 arithmetic gives NaN for wins / 0 (0.0 / 0.0) and for sqrt(2 ln 0 / v)
expectation_is_nan(node, parent_visits) ==
    node.visits = 0 \/ parent_visits = 0

\* SearchNode::expectation, times ExpScale: payout + confidence
expectation(node, parent_visits) ==
    LET payout == (node.wins * ExpScale) \div (WinUnit * node.visits)
        confidence ==
            Isqrt((2 * LnTable[parent_visits] * ExpScale) \div node.visits)
    IN  payout + confidence

\* min_by_key where max_by_key is meant: the first least visited child
least_visited_child(ns, n) ==
    LET cs == ns[n].children
    IN  IF cs = << >> THEN None
        ELSE LET i == CHOOSE i \in 1..Len(cs) :
                        /\ \A j \in 1..Len(cs) : ns[cs[j]].visits >= ns[cs[i]].visits
                        /\ \A j \in 1..(i - 1) : ns[cs[j]].visits > ns[cs[i]].visits
             IN  Some(cs[i])

\* SearchNode::most_visited_child: Iterator::max_by_key returns the last of
\* several equally maximal elements; None stands for the failed expect
most_visited_child(ns, n) ==
    LET cs == ns[n].children
    IN  IF cs = << >> THEN None
        ELSE LET i == CHOOSE i \in 1..Len(cs) :
                        /\ \A j \in 1..Len(cs) : ns[cs[j]].visits <= ns[cs[i]].visits
                        /\ \A j \in (i + 1)..Len(cs) : ns[cs[j]].visits < ns[cs[i]].visits
             IN  Some(cs[i])

\* a most_visited_child that moves the child it found to the front of the
\* children
most_visited_child_to_front(ns, n) ==
    LET best == most_visited_child(ns, n)
        others == SelectSeq(ns[n].children, LAMBDA c : c # best[1])
    IN  IF best = None THEN [nodes |-> ns, child |-> None]
        ELSE [nodes |-> [ns EXCEPT ![n].children = <<best[1]>> \o others],
              child |-> best]

\* one call of most_visited_child(&self): the tree it leaves and the child
\* it returns; the receiver is borrowed immutably and no child is written
most_visited_child_call(ns, n) ==
    [nodes |-> ns, child |-> most_visited_child(ns, n)]

\* wins / visits of a is greater than wins / visits of b
higher_percent_won(a, b) == a.wins * b.visits > b.wins * a.visits

RECURSIVE sorted_by_percent_won(_, _)
\* the children seq of the tree ns in descending order of wins / visits,
\* equal ones in their stored order
sorted_by_percent_won(ns, seq) ==
    IF seq = << >> THEN << >>
    ELSE LET sorted == sorted_by_percent_won(ns, SubSeq(seq, 1, Len(seq) - 1))
             x == seq[Len(seq)]
             k == Cardinality({i \in 1..Len(sorted) :
                                 ~higher_percent_won(ns[x], ns[sorted[i]])})
         IN  SubSeq(sorted, 1, k) \o <<x>> \o SubSeq(sorted, k + 1, Len(sorted))

\* the line print_debug_move_tree prints for the child c: its move, its
\* wins and its visits (the percentage printed is 100 * wins / visits)
child_line(ns, c) ==
    [last_move |-> ns[c].last_move[1], wins |-> ns[c].wins,
     visits |-> ns[c].visits]

RECURSIVE print_debug_move_tree_sorting(_, _)
\* a dump that sorts the children themselves by descending win percentage
\* before it prints them
print_debug_move_tree_sorting(ns, n) ==
    LET sorted == sorted_by_percent_won(ns, ns[n].children)
        ms == [ns EXCEPT ![n].children = sorted]
        lines == [i \in 1..Len(sorted) |-> child_line(ms, sorted[i])]
    IN  IF active_player(ns[n].state) = None
        THEN [out |-> <<[node |-> n, lines |-> << >>, tail |-> "game is over"]>>,
              nodes |-> ns]
        ELSE IF sorted = << >>
        THEN [out |-> <<[node |-> n, lines |-> lines,
                         tail |-> "tree is exhausted"]>>,
              nodes |-> ms]
        ELSE LET m == most_visited_child_call(ms, n)
                 rest == print_debug_move_tree_sorting(m.nodes, m.child[1])
             IN  [out |-> <<[node |-> n, lines |-> lines, tail |-> ""]>>
                            \o rest.out,
                  nodes |-> rest.nodes]

RECURSIVE print_debug_move_tree(_, _)
\* SearchNode::print_debug_move_tree of tree_search.rs: a block for the node
\* (one line per child, in the order the children are stored), then the
\* same for its most visited child; with it the tree the calls leave
print_debug_move_tree(ns, n) ==
    LET cs == ns[n].children
        lines == [i \in 1..Len(cs) |-> child_line(ns, cs[i])]
    IN  IF active_player(ns[n].state) = None
        THEN [out |-> <<[node |-> n, lines |-> << >>, tail |-> "game is over"]>>,
              nodes |-> ns]
        ELSE IF cs = << >>
        THEN [out |-> <<[node |-> n, lines |-> lines,
                         tail |-> "tree is exhausted"]>>,
              nodes |-> ns]
        ELSE LET m == most_visited_child_call(ns, n)
                 rest == print_debug_move_tree(m.nodes, m.child[1])
             IN  [out |-> <<[node |-> n, lines |-> lines, tail |-> ""]>>
                            \o rest.out,
                  nodes |-> rest.nodes]

\* the sort of select_most_promising_child panics when a comparison meets a
\* NaN; sort_by compares nothing in a list shorter than two
sort_panics(ns, n) ==
    /\ Len(ns[n].children) >= 2
    /\ \E i \in 1..Len(ns[n].children) :
          expectation_is_nan(ns[ns[n].children[i]], ns[n].visits)

\* a sort that puts an element before the elements equal to it
sorted_children_unstable(ns, n) ==
    LET key(c) == expectation(ns[c], ns[n].visits)
        Insert(sorted, x) ==
            LET k == Cardinality({i \in 1..Len(sorted) : key(sorted[i]) > key(x)})
            IN  SubSeq(sorted, 1, k) \o <<x>> \o SubSeq(sorted, k + 1, Len(sorted))
        RECURSIVE Sort(_)
        Sort(seq) ==
            IF seq = << >> THEN << >>
            ELSE Insert(Sort(SubSeq(seq, 1, Len(seq) - 1)), seq[Len(seq)])
    IN  IF Len(ns[n].children) < 2 THEN ns[n].children
        ELSE Sort(ns[n].children)

\* the children of n in the order sort_by leaves them: descending
\* expectation, equal elements in their previous order (a stable sort)
sorted_children(ns, n) ==
    LET key(c) == expectation(ns[c], ns[n].visits)
        Insert(sorted, x) ==
            LET k == Cardinality({i \in 1..Len(sorted) : key(sorted[i]) >= key(x)})
            IN  SubSeq(sorted, 1, k) \o <<x>> \o SubSeq(sorted, k + 1, Len(sorted))
        RECURSIVE Sort(_)
        Sort(seq) ==
            IF seq = << >> THEN << >>
            ELSE Insert(Sort(SubSeq(seq, 1, Len(seq) - 1)), seq[Len(seq)])
    IN  IF Len(ns[n].children) < 2 THEN ns[n].children
        ELSE Sort(ns[n].children)

\* SearchNode::select_most_promising_child: the tree with n's children
\* sorted, and the first of them
select_most_promising_child(ns, n) ==
    LET sorted == sorted_children(ns, n)
    IN  [nodes |-> [ns EXCEPT ![n].children = sorted], child |-> sorted[1]]

RECURSIVE best_unexplored_node_eager(_, _)
\* a descent that goes on wherever the node has a child, untried moves or not
best_unexplored_node_eager(ns, n) ==
    IF ns[n].children # << >>
    THEN IF sort_panics(ns, n)
         THEN [nodes |-> ns, node |-> n, panic |-> TRUE]
         ELSE LET sel == select_most_promising_child(ns, n)
              IN  best_unexplored_node_eager(sel.nodes, sel.child)
    ELSE [nodes |-> ns, node |-> n, panic |-> FALSE]

\* a selection that never descends: the node it is given is the working
\* node
best_unexplored_node_no_descent(ns, n) ==
    [nodes |-> ns, node |-> n, panic |-> FALSE]

RECURSIVE best_unexplored_node(_, _)
\* best_unexplored_node: descend while the node has no untried move and has
\* a child; the sorts on the way stay in the tree
best_unexplored_node(ns, n) ==
    IF ns[n].untried_moves = << >> /\ ns[n].children # << >>
    THEN IF sort_panics(ns, n)
         THEN [nodes |-> ns, node |-> n, panic |-> TRUE]
         ELSE LET sel == select_most_promising_child(ns, n)
              IN  best_unexplored_node(sel.nodes, sel.child)
    ELSE [nodes |-> ns, node |-> n, panic |-> FALSE]

\* Vec::remove(idx), idx counted from 0
RemoveAt(seq, idx) == SubSeq(seq, 1, idx) \o SubSeq(seq, idx + 2, Len(seq))

\* an expansion that takes the mover from the parent's player_just_moved
\* (the player after that one moves) instead of from the parent's state
expand_node_by_move_after_parent(ns, n, move_idx) ==
    LET node == ns[n]
        picked_move == node.untried_moves[move_idx + 1]
        new_state == make_move(node.state, picked_move)
        new_node == [state |-> new_state,
                     wins |-> 0,
                     visits |-> 0,
                     last_move |-> Some(picked_move),
                     untried_moves |-> all_moves(new_state),
                     player_just_moved |-> 1 - node.player_just_moved,
                     parent |-> Some(n),
                     children |-> << >>]
        id == Len(ns) + 1
    IN  Append([ns EXCEPT ![n].untried_moves = RemoveAt(@, move_idx),
                          ![n].children = Append(@, id)],
               new_node)

\* an expansion that credits the player to move after the move
expand_node_by_move_next_player(ns, n, move_idx) ==
    LET node == ns[n]
        picked_move == node.untried_moves[move_idx + 1]
        new_state == make_move(node.state, picked_move)
        new_node == [state |-> new_state,
                     wins |-> 0,
                     visits |-> 0,
                     last_move |-> Some(picked_move),
                     untried_moves |-> all_moves(new_state),
                     player_just_moved |-> active_player(new_state)[1],
                     parent |-> Some(n),
                     children |-> << >>]
        id == Len(ns) + 1
    IN  Append([ns EXCEPT ![n].untried_moves = RemoveAt(@, move_idx),
                          ![n].children = Append(@, id)],
               new_node)

\* an expansion that leaves the new node without its parent link
expand_node_by_move_orphan(ns, n, move_idx) ==
    LET node == ns[n]
        picked_move == node.untried_moves[move_idx + 1]
        new_state == make_move(node.state, picked_move)
        new_node == [state |-> new_state,
                     wins |-> 0,
                     visits |-> 0,
                     last_move |-> Some(picked_move),
                     untried_moves |-> all_moves(new_state),
                     player_just_moved |-> active_player(node.state)[1],
                     parent |-> None,
                     children |-> << >>]
        id == Len(ns) + 1
    IN  Append([ns EXCEPT ![n].untried_moves = RemoveAt(@, move_idx),
                          ![n].children = Append(@, id)],
               new_node)

\* expand_node_by_move: the tree with one more node, the child of n by its
\* untried move number move_idx (from 0)
expand_node_by_move(ns, n, move_idx) ==
    LET node == ns[n]
        picked_move == node.untried_moves[move_idx + 1]
        new_state == make_move(node.state, picked_move)
        new_node == [state |-> new_state,
                     wins |-> 0,
                     visits |-> 0,
                     last_move |-> Some(picked_move),
                     untried_moves |-> all_moves(new_state),
                     player_just_moved |-> active_player(node.state)[1],
                     parent |-> Some(n),
                     children |-> << >>]
        id == Len(ns) + 1
    IN  Append([ns EXCEPT ![n].untried_moves = RemoveAt(@, move_idx),
                          ![n].children = Append(@, id)],
               new_node)

\* a find_best_move that takes player 0 when there is no player
just_moved_or_first(rs) ==
    IF all_players(rs) = << >> THEN Some(0)
    ELSE Some(all_players(rs)[Len(all_players(rs))])

\* find_best_move's just_moved: all_players().last().cloned(); None stands
\* for the failed expect
just_moved(rs) ==
    IF all_players(rs) = << >> THEN None
    ELSE Some(all_players(rs)[Len(all_players(rs))])

\* the root node find_best_move builds: the last player counts as having
\* moved
root_node(rs) ==
    [state |-> rs,
     wins |-> 0,
     visits |-> 0,
     last_move |-> None,
     untried_moves |-> all_moves(rs),
     player_just_moved |-> just_moved(rs)[1],
     parent |-> None,
     children |-> << >>]

\* the root node of a search in which player p counts as having moved
\* before the root: root_node with another just_moved
root_node_moved_by(rs, p) == [root_node(rs) EXCEPT !.player_just_moved = p]

\* the loop over 0..=max_iters, one turn too many
loop_continues_inclusive(i, n) == i <= n

\* for _ in 0..max_iters
loop_continues(i, n) == i < n

\* a backpropagation that forgets the working node itself
backpropagate_ancestors_only(ns, n, winners) ==
    LET path == {ancestors(ns, n)[i] : i \in 1..Len(ancestors(ns, n))}
    IN  [i \in 1..Len(ns) |->
            IF i \in path THEN update_with_result(ns[i], winners) ELSE ns[i]]

\* a backpropagation that updates the root alone
backpropagate_root_only(ns, n, winners) ==
    [i \in 1..Len(ns) |->
        IF i = Root THEN update_with_result(ns[i], winners) ELSE ns[i]]

\* a backpropagation that updates every node of the tree
backpropagate_whole_tree(ns, n, winners) ==
    [i \in 1..Len(ns) |-> update_with_result(ns[i], winners)]

\* the backpropagation of find_best_move: the working node and its ancestors
backpropagate(ns, n, winners) ==
    LET path == {n} \cup {ancestors(ns, n)[i] : i \in 1..Len(ancestors(ns, n))}
    IN  [i \in 1..Len(ns) |->
            IF i \in path THEN update_with_result(ns[i], winners) ELSE ns[i]]

\* a find_best_move that falls back on an untried move of the root when
\* the root has no child
best_move_or_untried(ns) ==
    LET best_child == most_visited_child(ns, Root)
    IN  IF best_child # None THEN ns[best_child[1]].last_move
        ELSE IF ns[Root].untried_moves # << >>
             THEN Some(ns[Root].untried_moves[1])
             ELSE None

\* the end of find_best_move: the last_move of the root's most visited
\* child; None stands for the panic of most_visited_child's expect
best_move_of(ns) ==
    LET best_child == most_visited_child_call(ns, Root).child
    IN  IF best_child = None THEN None ELSE ns[best_child[1]].last_move

\* a find_best_move that starts from the tree the previous call left behind
new_search_keeps_tree(rs) ==
    IF pc = "loop" THEN <<root_node(rs)>> ELSE nodes

\* what find_best_move builds before its loop: a tree of the root alone;
\* nothing of an earlier call is kept
new_search(rs) == <<root_node(rs)>>

\* ------------------------------------------- cards.rs: the card statics
\* the width of CardIdentifier(u16) and of CARD_ID_COUNTER
U16 == 65536

\* the elements of the vec! of CARDS, in the order they are evaluated
CARDS_vec ==
    <<"Copper", "Silver", "Gold", "Estate", "Duchy", "Province", "Curse",
      "Village", "Smithy", "Market", "Woodcutter", "Militia", "Workshop",
      "Mine", "Remodel", "Cellar", "Moat">>

\* bump_card_counter: the counter after the call, which is also returned
bump_card_counter(c) == (c + 1) % U16

\* the first access to a card static runs its make_..._card, which takes
\* the next identifier; a later access finds the card made
force_card(ids, counter, c) ==
    IF ids[c] # 0 THEN [identifier |-> ids, counter |-> counter]
    ELSE [identifier |-> [ids EXCEPT ![c] = bump_card_counter(counter)],
          counter |-> bump_card_counter(counter)]

\* CARDS left in the order of its vec!
sort_cards_unsorted(ids, v) == v

RECURSIVE sort_cards_by_identifier(_, _)
\* sort_cards_by_identifier: a stable sort by identifier
sort_cards_by_identifier(ids, v) ==
    IF v = << >> THEN << >>
    ELSE LET sorted == sort_cards_by_identifier(ids, SubSeq(v, 1, Len(v) - 1))
             x == v[Len(v)]
             k == Cardinality({i \in 1..Len(sorted) : ids[sorted[i]] <= ids[x]})
         IN  SubSeq(sorted, 1, k) \o <<x>> \o SubSeq(sorted, k + 1, Len(sorted))

\* lookup_card on CARDS: &CARDS[(ci.0 - 1) as usize], indices from 1 here
lookup_in(catalog, ci) == catalog[(ci - 1) + 1]

\* no card static has been accessed yet
StaticsUntouched ==
    /\ card_id_counter = 0
    /\ identifier = [c \in {CARDS_vec[i] : i \in 1..Len(CARDS_vec)} |-> 0]
    /\ forced = 0
    /\ cards_static = None
    /\ early_accesses = 0

\* ------------------------------------------------------------------ Init
\* no card game is played while find_best_move searches a NimState
NoGame ==
    /\ game = << >>
    /\ ctx_rng = 0
    /\ game_panic = None

RootStates(maxTotal) ==
    {[total |-> t, player_turn |-> p] : t \in 0..maxTotal, p \in {0, 1}}

InitSearch ==
    /\ pc = "loop"
    /\ nodes = new_search(root_state)
    /\ iter = 0
    /\ node_ref = Root
    /\ sim = root_state
    /\ result = << >>
    /\ best_move = None
    /\ panic_msg = None
    /\ expansions = 0
    /\ dump = << >>
    /\ rollout_moves = 0
    /\ call = 1
    /\ first_move = None
    /\ first_seed = 0
    /\ first_tree = << >>

Init ==
    /\ domain \in Domains
    /\ root_state \in RootStates(MaxTotal)
    /\ max_iters \in 0..MaxIters
    /\ debug = FALSE
    /\ InitSearch
    /\ seed = 0
    /\ rng = 0
    /\ NoGame
    /\ StaticsUntouched

\* --------------------------------------------------------- find_best_move
\* Select
Select ==
    /\ pc = "loop"
    /\ loop_continues(iter, max_iters)
    /\ LET sel == best_unexplored_node(nodes, Root)
       IN  IF sel.panic
           THEN /\ pc' = "panic"
                /\ panic_msg' = Some("non-total comparison")
                /\ UNCHANGED <<nodes, node_ref>>
           ELSE /\ pc' = "expand"
                /\ nodes' = sel.nodes
                /\ node_ref' = sel.node
                /\ UNCHANGED panic_msg
    /\ UNCHANGED <<iter, sim, result, best_move, expansions, dump,
                   rollout_moves>>

\* Expand, with move_idx the value of rng.gen_range(0, untried_moves.len())
ExpandAt(move_idx) ==
    /\ pc = "expand"
    /\ nodes[node_ref].untried_moves # << >>
    /\ move_idx \in 0..(Len(nodes[node_ref].untried_moves) - 1)
    /\ nodes' = expand_node_by_move(nodes, node_ref, move_idx)
    /\ node_ref' = Len(nodes) + 1
    /\ sim' = nodes'[node_ref'].state
    /\ expansions' = expansions + 1
    /\ pc' = "rollout"
    /\ rollout_moves' = 0
    /\ UNCHANGED <<iter, result, best_move, panic_msg, dump>>

\* nothing to expand: the selected node has no untried move
SkipExpand ==
    /\ pc = "expand"
    /\ nodes[node_ref].untried_moves = << >>
    /\ sim' = nodes[node_ref].state
    /\ pc' = "rollout"
    /\ rollout_moves' = 0
    /\ UNCHANGED <<nodes, node_ref, iter, result, best_move, panic_msg,
                   expansions, dump>>
    /\ UNCHANGED <<statics_vars, input_vars, call_vars, rng, card_vars>>

\* a rollout that plays in the working node's own state instead of in the
\* clone find_best_move hands over
simulate_step_in_node(ns, n, s, idx) ==
    LET moved == make_move_mut(s, all_moves(s)[idx + 1])
    IN  [nodes |-> [ns EXCEPT ![n].state = moved], state |-> moved]

\* one turn of the loop of simulate_until_terminal on mut_state, the clone
\* of the state of the working node n: the arena ns is not reachable from
\* the function, whose arguments are the state, the rng and the context
simulate_step(ns, n, s, idx) ==
    [nodes |-> ns, state |-> make_move_mut(s, all_moves(s)[idx + 1])]

\* one turn of the loop of simulate_until_terminal, with idx the index
\* rng.choose draws in all_moves()
RolloutAt(idx) ==
    /\ pc = "rollout"
    /\ all_moves(sim) # << >>
    /\ idx \in 0..(Len(all_moves(sim)) - 1)
    /\ LET step == simulate_step(nodes, node_ref, sim, idx)
       IN  /\ nodes' = step.nodes
           /\ sim' = step.state
    /\ rollout_moves' = rollout_moves + 1
    /\ UNCHANGED <<iter, pc, node_ref, result, best_move, panic_msg,
                   expansions, dump>>

\* choose_random_move returned None: the rollout is over, read the result
RolloutEnd ==
    /\ pc = "rollout"
    /\ all_moves(sim) = << >>
    /\ IF game_result(sim) = None
       THEN /\ pc' = "panic"
            /\ panic_msg' = Some("Terminal game state is missing a result")
            /\ UNCHANGED result
       ELSE /\ pc' = "backprop"
            /\ result' = game_result(sim)[1]
            /\ UNCHANGED panic_msg
    /\ UNCHANGED <<nodes, iter, node_ref, sim, best_move, expansions, dump,
                   rollout_moves>>
    /\ UNCHANGED <<statics_vars, input_vars, call_vars, rng, card_vars>>

\* Backpropagate, and the end of one iteration
Backpropagate ==
    /\ pc = "backprop"
    /\ nodes' = backpropagate(nodes, node_ref, result)
    /\ iter' = iter + 1
    /\ pc' = "loop"
    /\ rollout_moves' = 0
    /\ UNCHANGED <<node_ref, sim, result, best_move, panic_msg, expansions,
                   dump>>
    /\ UNCHANGED <<statics_vars, input_vars, call_vars, rng, card_vars>>

\* after the loop: the dump when debug is set, then the last_move of the
\* root's most visited child
Finish ==
    /\ pc = "loop"
    /\ ~loop_continues(iter, max_iters)
    /\ LET printed == IF debug THEN print_debug_move_tree(nodes, Root)
                      ELSE [out |-> << >>, nodes |-> nodes]
       IN  /\ dump' = printed.out
           /\ nodes' = most_visited_child_call(printed.nodes, Root).nodes
           /\ IF best_move_of(printed.nodes) = None
              THEN /\ pc' = "panic"
                   /\ panic_msg' =
                         Some("most_visited_child() called on terminal node")
                   /\ UNCHANGED best_move
              ELSE /\ pc' = "done"
                   /\ best_move' = best_move_of(printed.nodes)
                   /\ UNCHANGED panic_msg
    /\ UNCHANGED <<iter, node_ref, sim, result, expansions, rollout_moves>>
    /\ UNCHANGED <<statics_vars, input_vars, call_vars, rng, card_vars>>

SelectStep == Select /\ UNCHANGED <<statics_vars, input_vars, call_vars, rng, card_vars>>

Expand ==
    /\ \E move_idx \in 0..2 : ExpandAt(move_idx)
    /\ UNCHANGED <<statics_vars, input_vars, call_vars, rng, card_vars>>

RolloutStep ==
    /\ \E idx \in 0..2 : RolloutAt(idx)
    /\ UNCHANGED <<statics_vars, input_vars, call_vars, rng, card_vars>>

Next ==
    \/ SelectStep
    \/ Expand
    \/ SkipExpand
    \/ RolloutStep
    \/ RolloutEnd
    \/ Backpropagate
    \/ Finish

Spec == Init /\ [][Next]_vars

\* ------------------------------------------------- any caller: any roster
\* of players, debug set or not. find_best_move reads all_players() before
\* it builds the tree, so a call with no player starts in its panic.
InitNoPlayers ==
    /\ pc = "panic"
    /\ panic_msg = Some("Players must not be empty")
    /\ nodes = << >>
    /\ iter = 0
    /\ node_ref = Root
    /\ sim = root_state
    /\ result = << >>
    /\ best_move = None
    /\ expansions = 0
    /\ dump = << >>
    /\ rollout_moves = 0
    /\ call = 1
    /\ first_move = None
    /\ first_seed = 0
    /\ first_tree = << >>

InitAny ==
    /\ domain \in AllDomains
    /\ root_state \in RootStates(AnyTotal)
    /\ max_iters \in 0..AnyIters
    /\ debug \in BOOLEAN
    /\ IF just_moved(root_state) = None THEN InitNoPlayers ELSE InitSearch
    /\ seed = 0
    /\ rng = 0
    /\ NoGame
    /\ StaticsUntouched

SpecAny == InitAny /\ [][Next]_vars

\* ------------------------------------------------- two calls, one after
\* the other, with the same root_state and max_iters. Spec lets every draw
\* take any value in its range, which covers every seed; here each call
\* seeds its own rng as find_best_move does and every draw is the value
\* that generator yields, so that two calls can be compared by their seeds.
InitCalls ==
    /\ domain \in Domains
    /\ root_state \in RootStates(CallsTotal)
    /\ max_iters \in 0..CallsIters
    /\ debug = FALSE
    /\ InitSearch
    /\ seed \in randomly_seeded_weak_rng
    /\ rng = seed
    /\ NoGame
    /\ StaticsUntouched

\* Expand with move_idx = rng.gen_range(0, untried_moves.len())
ExpandDrawn ==
    /\ ExpandAt(gen_range(rng, Len(nodes[node_ref].untried_moves)))
    /\ rng' = next_rng(rng)
    /\ UNCHANGED <<statics_vars, input_vars, call_vars, card_vars>>

\* one rollout move, rng.choose(&possible_moves)
RolloutDrawn ==
    /\ RolloutAt(gen_range(rng, Len(all_moves(sim))))
    /\ rng' = next_rng(rng)
    /\ UNCHANGED <<statics_vars, input_vars, call_vars, card_vars>>

\* the first call is over (it returned or panicked): call again
SecondCall ==
    /\ call = 1
    /\ pc \in {"done", "panic"}
    /\ call' = 2
    /\ first_move' = best_move
    /\ first_seed' = seed
    /\ first_tree' = nodes
    /\ seed' \in randomly_seeded_weak_rng
    /\ rng' = seed'
    /\ nodes' = new_search(root_state)
    /\ iter' = 0
    /\ pc' = "loop"
    /\ node_ref' = Root
    /\ sim' = root_state
    /\ result' = << >>
    /\ best_move' = None
    /\ panic_msg' = None
    /\ expansions' = 0
    /\ dump' = << >>
    /\ rollout_moves' = 0
    /\ UNCHANGED <<statics_vars, input_vars, card_vars>>

NextCalls ==
    \/ SelectStep
    \/ ExpandDrawn
    \/ SkipExpand
    \/ RolloutDrawn
    \/ RolloutEnd
    \/ Backpropagate
    \/ Finish
    \/ SecondCall

SpecCalls == InitCalls /\ [][NextCalls]_vars

RECURSIVE SumVisits(_, _)
\* the sum of visits over the nodes a sequence of references names
SumVisits(ns, refs) ==
    IF refs = << >> THEN 0
    ELSE ns[Head(refs)].visits + SumVisits(ns, Tail(refs))

\* the depth of a node: the number of its strict ancestors
Depth(ns, n) == Len(walk(ns, ns[n].parent))

\* C3: on a root with at least one legal move the root's visits equals the
\* number of completed iterations, after every iteration from 0 to max_iters.
C3_RootVisitsAreIterations ==
    all_moves(root_state) # << >> => nodes[Root].visits = iter

\* all iterations are done and one of them worked on a node two levels
\* below the root
C3_Witness ==
    /\ pc = "done"
    /\ iter = max_iters
    /\ iter >= 4
    /\ \E n \in 1..Len(nodes) : Depth(nodes, n) >= 2 /\ nodes[n].visits >= 1
    /\ nodes[Root].visits = iter

\* ------------------------------------------------------------------ C4
\* C4 as stated: between iterations the sum of visits over the root's
\* children is the number of iterations in which a node was created.
C4_ChildVisitsAreExpansions ==
    pc = "loop" => SumVisits(nodes, nodes[Root].children) = expansions

\* C4: between iterations the sum of visits over the root's children is
\* the number of completed iterations when the root has a legal move, and
\* 0 when it has none; the number of iterations that created a node is
\* never larger than that sum.
C4_ChildVisitsAreIterations ==
    pc = "loop" =>
        /\ SumVisits(nodes, nodes[Root].children)
              = (IF all_moves(root_state) = << >> THEN 0 ELSE iter)
        /\ expansions <= SumVisits(nodes, nodes[Root].children)

\* some iteration selected a node without legal moves and created nothing
C4_Witness ==
    /\ pc = "loop"
    /\ iter >= 3
    /\ expansions < iter
    /\ Len(nodes[Root].children) >= 2
    /\ SumVisits(nodes, nodes[Root].children) = iter

\* ------------------------------------------------------------------ C5
\* C5: every node of the tree has 0 <= wins <= visits, in every state.
C5_WinsWithinVisits ==
    \A n \in 1..Len(nodes) :
        /\ 0 <= nodes[n].wins
        /\ nodes[n].wins <= WinUnit * nodes[n].visits

\* a node that won every one of several visits, and one that shared a win
C5_Witness ==
    /\ \E n \in 1..Len(nodes) :
          nodes[n].visits >= 2 /\ nodes[n].wins = WinUnit * nodes[n].visits
    /\ \E n \in 1..Len(nodes) :
          nodes[n].visits >= 2 /\ nodes[n].wins % WinUnit # 0

\* ------------------------------------------------------------------ C6
\* C6: the tree never holds more than max_iters + 1 nodes, the root
\* included, however long the rollouts are.
C6_TreeBound == Len(nodes) <= max_iters + 1

\* the last iteration has created its node, the tree is at the bound, and
\* the rollout from that node has already played two moves
C6_Witness ==
    /\ pc = "rollout"
    /\ max_iters >= 3
    /\ Len(nodes) = max_iters + 1
    /\ nodes[node_ref].state.total - sim.total >= 2

\* ------------------------------------------------------------------ C7
\* the credit C7 states, in units of 1/WinUnit: nothing for a node whose
\* player_just_moved is not a winner, a whole win for a sole winner, half
\* a win for one of two winners
C7_Credit(node, winners) ==
    IF ~Contains(winners, node.player_just_moved) THEN 0
    ELSE IF Len(winners) = 1 THEN 2
    ELSE IF Len(winners) = 2 THEN 1
    ELSE -1

\* C7: every update_with_result of a backpropagation (on the working node
\* and on the root) adds exactly 1 to visits, and adds to wins 1 for a sole
\* winner, 0.5 for one of two winners and 0 for a node that did not win.
C7_UpdateCredits ==
    [][pc = "backprop" =>
        \A n \in {node_ref, Root} :
            /\ nodes'[n].visits = nodes[n].visits + 1
            /\ nodes'[n].wins = nodes[n].wins + C7_Credit(nodes[n], result)]_vars

\* a backpropagation of a two-winner result has just credited the working
\* node half a win
C7_Witness ==
    /\ pc = "loop"
    /\ iter >= 1
    /\ Len(result) = 2
    /\ Contains(result, nodes[node_ref].player_just_moved)
    /\ nodes[node_ref].visits = 1
    /\ nodes[node_ref].wins = 1

\* ------------------------------------------------------------------ C8
\* C8 as stated: with max_iters = 0 and a root that has a legal move the
\* call returns one of the root's legal moves.
C8_ZeroItersReturnsMove ==
    (max_iters = 0 /\ all_moves(root_state) # << >> /\ pc # "loop")
        => /\ pc = "done"
           /\ best_move # None
           /\ Contains(all_moves(root_state), best_move[1])

\* C8: with max_iters = 0 and a root that has a legal move the call
\* returns nothing: the root has no child and most_visited_child panics.
C8_ZeroItersPanics ==
    (max_iters = 0 /\ all_moves(root_state) # << >> /\ pc # "loop")
        => /\ pc = "panic"
           /\ panic_msg = Some("most_visited_child() called on terminal node")
           /\ best_move = None
           /\ nodes[Root].children = << >>

\* the call with max_iters = 0 on a root with three legal moves has ended
C8_Witness ==
    /\ max_iters = 0
    /\ Len(all_moves(root_state)) = 3
    /\ pc = "panic"
    /\ iter = 0
    /\ nodes[Root].untried_moves = all_moves(root_state)

\* ------------------------------------------------------------------ C9
\* C9: a call that returns has run exactly max_iters iterations and returns
\* the last_move of a child of the root that no other child of the root
\* exceeds in visits; that move is a legal move of the root state.
C9_ReturnsMostVisited ==
    pc = "done" =>
        /\ iter = max_iters
        /\ best_move # None
        /\ \E i \in 1..Len(nodes[Root].children) :
              LET c == nodes[Root].children[i]
              IN  /\ nodes[c].last_move = best_move
                  /\ \A j \in 1..Len(nodes[Root].children) :
                        nodes[nodes[Root].children[j]].visits <= nodes[c].visits
        /\ Contains(all_moves(root_state), best_move[1])

\* a call has returned the move of the strictly most visited of three
\* children
C9_Witness ==
    /\ pc = "done"
    /\ max_iters >= 4
    /\ Len(nodes[Root].children) = 3
    /\ \E i \in 1..3 :
          /\ nodes[nodes[Root].children[i]].last_move = best_move
          /\ \A j \in (1..3) \ {i} :
                nodes[nodes[Root].children[j]].visits
                    < nodes[nodes[Root].children[i]].visits

\* ----------------------------------------------------------------- C10
\* C10: a rollout whose final state lists no winner aborts the call: the
\* call never goes on to backpropagate an empty winner list.
C10_EmptyWinnersAbort ==
    pc = "backprop" => result # << >>

\* ------------------------------------------------------------------ C11
\* a call that has stopped, by returning or by a panic
call_is_over == pc \notin {"loop", "expand", "rollout", "backprop"}

\* C11: a call of find_best_move on a root state with no legal move, or with
\* an empty all_players(), never returns a move, whatever max_iters is: no
\* move is ever set, and when the call is over it is by a panic.
C11_BadRootNeverReturns ==
    (all_moves(root_state) = << >> \/ all_players(root_state) = << >>) =>
        /\ best_move = None
        /\ pc # "done"
        /\ call_is_over => (pc = "panic" /\ panic_msg # None)

\* a search of a finished game ran all its iterations and then panicked
C11_Witness ==
    /\ all_moves(root_state) = << >>
    /\ all_players(root_state) # << >>
    /\ max_iters >= 2
    /\ iter = max_iters
    /\ pc = "panic"
    /\ panic_msg = Some("most_visited_child() called on terminal node")

\* ------------------------------------------------------------------ C12
\* the step that ends the loop of a call with debug set: it prints the dump
dump_step == pc = "loop" /\ ~loop_continues(iter, max_iters) /\ debug

\* C12: the debug dump changes nothing in the tree (every node's wins,
\* visits, untried_moves and children, in their order, are after the dump
\* what they were before it), and the move returned after the dump is the
\* move the same tree gives without a dump, that is, with debug = false.
C12_DumpChangesNothing ==
    [][dump_step =>
          /\ nodes' = nodes
          /\ pc' = "done" => best_move' = best_move_of(nodes)]_vars

\* a dump was printed of a tree whose root has children stored in another
\* order than that of their win percentages
C12_Witness ==
    /\ debug
    /\ pc = "done"
    /\ Len(dump) >= 2
    /\ \E i, j \in 1..Len(nodes[Root].children) :
          /\ i < j
          /\ higher_percent_won(nodes[nodes[Root].children[j]],
                                nodes[nodes[Root].children[i]])

\* ------------------------------------------------------------------ C13
\* C13 as stated: every block of the dump lists the children of its node in
\* order of descending win percentage (wins / visits): no line is followed
\* by a line of a higher percentage.
C13_DumpDescending ==
    \A b \in 1..Len(dump) :
        \A i, j \in 1..Len(dump[b].lines) :
            i < j => ~higher_percent_won(dump[b].lines[j], dump[b].lines[i])

DrawCards(n) == [kind |-> "DrawCards", n |-> n]
PlusActions(n) == [kind |-> "PlusActions", n |-> n]
PlusBuys(n) == [kind |-> "PlusBuys", n |-> n]
PlusCoins(n) == [kind |-> "PlusCoins", n |-> n]
OpponentsDiscardTo(n) == [kind |-> "OpponentsDiscardTo", n |-> n]
GainCardCostingUpto(n) == [kind |-> "GainCardCostingUpto", n |-> n]
DiscardForEffect(discard_effect) ==
    [kind |-> "DiscardForEffect", discard_effect |-> discard_effect]
TrashCards(card_type, followup) ==
    [kind |-> "TrashCards", card_type |-> card_type, followup |-> followup]

\* TrashFollowup::ReplaceByCost
ReplaceByCost(card_type, plus_cost, dest) ==
    [card_type |-> card_type, plus_cost |-> plus_cost, dest |-> dest]

trash_and_replace_action(card_type, plus_cost, dest) ==
    TrashCards(card_type, Some(ReplaceByCost(card_type, plus_cost, dest)))

make_treasure_card(cost, coin_value) ==
    [cost |-> cost, coin_value |-> Some(coin_value), vp_value |-> None,
     action_effects |-> << >>, reaction_effect |-> None, is_attack |-> FALSE]

make_vp_card(cost, vp_value) ==
    [cost |-> cost, coin_value |-> None, vp_value |-> Some(vp_value),
     action_effects |-> << >>, reaction_effect |-> None, is_attack |-> FALSE]

make_curse ==
    [cost |-> 0, coin_value |-> None, vp_value |-> Some(-1),
     action_effects |-> << >>, reaction_effect |-> None, is_attack |-> FALSE]

make_action_card(cost, action_effects) ==
    [cost |-> cost, coin_value |-> None, vp_value |-> None,
     action_effects |-> action_effects, reaction_effect |-> None,
     is_attack |-> FALSE]

make_attack_card(cost, action_effects) ==
    [cost |-> cost, coin_value |-> None, vp_value |-> None,
     action_effects |-> action_effects, reaction_effect |-> None,
     is_attack |-> TRUE]

make_reaction_card(cost, action_effects, reaction) ==
    [cost |-> cost, coin_value |-> None, vp_value |-> None,
     action_effects |-> action_effects, reaction_effect |-> Some(reaction),
     is_attack |-> FALSE]

\* the catalog of the lazy_static block
CARDS ==
    [c \in {"Copper", "Silver", "Gold", "Estate", "Duchy", "Province",
            "Curse", "Village", "Smithy", "Woodcutter", "Market", "Militia",
            "Workshop", "Mine", "Remodel", "Cellar", "Moat"} |->
        CASE c = "Copper" -> make_treasure_card(0, 1)
          [] c = "Silver" -> make_treasure_card(3, 2)
          [] c = "Gold" -> make_treasure_card(6, 3)
          [] c = "Estate" -> make_vp_card(2, 1)
          [] c = "Duchy" -> make_vp_card(5, 3)
          [] c = "Province" -> make_vp_card(8, 6)
          [] c = "Curse" -> make_curse
          [] c = "Village" ->
                make_action_card(3, <<DrawCards(1), PlusActions(2)>>)
          [] c = "Smithy" -> make_action_card(4, <<DrawCards(3)>>)
          [] c = "Woodcutter" ->
                make_action_card(3, <<PlusBuys(1), PlusCoins(2)>>)
          [] c = "Market" ->
                make_action_card(5, <<DrawCards(1), PlusActions(1),
                                      PlusBuys(1), PlusCoins(1)>>)
          [] c = "Militia" ->
                make_attack_card(4, <<PlusCoins(2), OpponentsDiscardTo(3)>>)
          [] c = "Workshop" -> make_action_card(3, <<GainCardCostingUpto(4)>>)
          [] c = "Mine" ->
                make_action_card(5, <<trash_and_replace_action(
                                        Some("Treasure"), 3, "GainToHand")>>)
          [] c = "Remodel" ->
                make_action_card(5, <<trash_and_replace_action(
                                        None, 2, "GainToDiscard")>>)
          [] c = "Cellar" ->
                make_action_card(2, <<DiscardForEffect("DrawPerDiscard")>>)
          [] c = "Moat" ->
                make_reaction_card(2, <<DrawCards(2)>>, "AttackImmunity")]

lookup_card(ci) == CARDS[ci]

is_action(card) == Len(card.action_effects) > 0
is_treasure(card) == card.coin_value # None
is_victory(card) == card.vp_value # None
is_reaction(card) == card.reaction_effect # None

\* cards::is_of_type
is_of_type(c, card_type) ==
    CASE card_type = "Treasure" -> is_treasure(lookup_card(c))
      [] card_type = "Action" -> is_action(lookup_card(c))
      [] card_type = "Victory" -> is_victory(lookup_card(c))
      [] card_type = "Reaction" -> is_reaction(lookup_card(c))
      [] card_type = "Curse" -> c = "Curse"

\* cards::filter_by_type
filter_by_type(cards, card_type) ==
    SelectSeq(cards, LAMBDA c : is_of_type(c, card_type))

RECURSIVE score_cards(_)
\* cards::score_cards: the sum of vp_value.unwrap_or(0)
score_cards(identifiers) ==
    IF identifiers = << >> THEN 0
    ELSE LET vp == lookup_card(Head(identifiers)).vp_value
         IN  (IF vp = None THEN 0 ELSE vp[1]) + score_cards(Tail(identifiers))

\* the order in which the entries of a pile map are visited. The iteration
\* order of a HashMap is unspecified but fixed while its keys are; this is
\* the order in which standard_piles lists the cards.
pile_order(piles) ==
    SelectSeq(<<"Province", "Duchy", "Estate", "Gold", "Silver", "Copper",
                "Curse", "Village", "Smithy", "Market", "Woodcutter",
                "Militia", "Workshop", "Mine", "Remodel", "Cellar", "Moat">>,
              LAMBDA c : c \in DOMAIN piles)

\* -------------------------------------------------------------- util.rs
\* Iterator::position: the index, from 1, of the first x in vs, or 0
position(vs, x) ==
    IF Contains(vs, x)
    THEN CHOOSE i \in 1..Len(vs) :
            vs[i] = x /\ \A j \in 1..(i - 1) : vs[j] # x
    ELSE 0

RECURSIVE subtract_vector(_, _)
\* util::subtract_vector: vs without the first occurrence of each element
\* of s in turn; ok is FALSE when the panic "Unable to find index" is met
subtract_vector(vs, s) ==
    IF s = << >> THEN [ok |-> TRUE, vs |-> vs]
    ELSE IF position(vs, Head(s)) = 0 THEN [ok |-> FALSE, vs |-> vs]
    ELSE subtract_vector(RemoveAt(vs, position(vs, Head(s)) - 1), Tail(s))

\* -------------------------------------------------------- game.rs: Player
PLAYER_HAND_SIZE == 5
EMPTY_PILES_FOR_GAME_END == 3

Min(a, b) == IF a <= b THEN a ELSE b

\* slice::swap, indices from 1
Swap(seq, i, j) == [seq EXCEPT ![i] = seq[j], ![j] = seq[i]]

RECURSIVE shuffle_from(_, _, _)
\* the loop of Rng::shuffle: while i >= 2, i -= 1 and swap element i with
\* element gen_range(0, i + 1)
shuffle_from(values, i, r) ==
    IF i < 2 THEN [values |-> values, rng |-> r]
    ELSE shuffle_from(Swap(values, i, gen_range(r, i) + 1), i - 1, next_rng(r))

\* Rng::shuffle
shuffle(values, r) == shuffle_from(values, Len(values), r)

\* a draw that forgets the cards left in the deck when it reshuffles
draw_cards_loses_deck(player, n, r) ==
    IF Len(player.deck) >= n
    THEN LET pivot == Len(player.deck) - n
         IN  [player |-> [player EXCEPT
                            !.hand = @ \o SubSeq(player.deck, pivot + 1,
                                                 Len(player.deck)),
                            !.deck = SubSeq(@, 1, pivot)],
              rng |-> r]
    ELSE LET shuffled == shuffle(player.discard, r)
             second_n == Min(Len(shuffled.values), n)
             pivot == Len(shuffled.values) - second_n
         IN  [player |-> [player EXCEPT
                            !.hand = @ \o SubSeq(shuffled.values, pivot + 1,
                                                 Len(shuffled.values)),
                            !.deck = SubSeq(shuffled.values, 1, pivot),
                            !.discard = << >>],
              rng |-> shuffled.rng]

\* Player::draw_cards for n > 0: the last n cards of the deck; when the deck
\* is too short, the whole deck, then the discard pile is shuffled into the
\* deck and the rest is taken from its end
draw_cards(player, n, r) ==
    IF Len(player.deck) >= n
    THEN LET pivot == Len(player.deck) - n
         IN  [player |-> [player EXCEPT
                            !.hand = @ \o SubSeq(player.deck, pivot + 1,
                                                 Len(player.deck)),
                            !.deck = SubSeq(@, 1, pivot)],
              rng |-> r]
    ELSE LET first_draw == player.deck
             shuffled == shuffle(player.discard, r)
             second_n == Min(Len(shuffled.values), n - Len(first_draw))
             pivot == Len(shuffled.values) - second_n
             second_draw == SubSeq(shuffled.values, pivot + 1,
                                   Len(shuffled.values))
         IN  [player |-> [player EXCEPT
                            !.hand = @ \o first_draw \o second_draw,
                            !.deck = SubSeq(shuffled.values, 1, pivot),
                            !.discard = << >>],
              rng |-> shuffled.rng]

\* Player::discard_hand
discard_hand(player) ==
    [player EXCEPT !.discard = @ \o player.hand, !.hand = << >>]

\* Player::all_cards
all_cards(player) == player.hand \o player.deck \o player.discard

\* ---------------------------------------------------------- game.rs: Game
\* A Game is a record of the fields of struct Game; players[pid + 1] is the
\* player with PlayerIdentifier pid. The methods that take the EvalContext
\* or can panic work on a record w of the game, the context's rng and the
\* panic met so far (None while there is none); after a panic nothing more
\* happens.
Panic(w, msg) == IF w.panic # None THEN w ELSE [w EXCEPT !.panic = Some(msg)]

\* Decision values
Decision(player, kind, arg, choices, lo, hi) ==
    [player |-> player, decision_type |-> [kind |-> kind, arg |-> arg],
     choices |-> choices, range |-> <<lo, hi>>]

\* QueuedEffect values
ActionEffect(pid, aid, ca) ==
    [kind |-> "ActionEffect", pid |-> pid, aid |-> aid, action |-> ca]
ReactOption(pid, aid) ==
    [kind |-> "ReactOption", pid |-> pid, aid |-> aid, action |-> << >>]

\* a list of gainable cards that forgets to leave out the empty piles
gainable_cards_costing_any_pile(g, lo, hi) ==
    SelectSeq(pile_order(g.piles),
              LAMBDA ci : /\ lookup_card(ci).cost >= lo
                          /\ lookup_card(ci).cost <= hi)

\* Game::gainable_cards_costing
gainable_cards_costing(g, lo, hi) ==
    SelectSeq(pile_order(g.piles),
              LAMBDA ci : /\ g.piles[ci] > 0
                          /\ lookup_card(ci).cost >= lo
                          /\ lookup_card(ci).cost <= hi)

\* Game::player_draws_cards, with the assertion of Player::draw_cards
player_draws_cards(w, pid, n) ==
    IF w.panic # None THEN w
    ELSE IF n <= 0 THEN Panic(w, "Drawing 0 cards does nothing")
    ELSE LET drawn == draw_cards(w.game.players[pid + 1], n, w.rng)
         IN  [w EXCEPT !.game.players[pid + 1] = drawn.player,
                       !.rng = drawn.rng]

\* a discard-to that asks for n cards, whatever the size of the hand
player_discards_to_count_n(g, pid, n) ==
    LET player == g.players[pid + 1]
    IN  IF Len(player.hand) > n
        THEN [g EXCEPT !.pending_decision =
                Some(Decision(pid, "DiscardCards", None, player.hand, n, n))]
        ELSE g

\* Game::player_discards_to
player_discards_to(g, pid, n) ==
    LET player == g.players[pid + 1]
        discard_count == Len(player.hand) - n
    IN  IF Len(player.hand) > n
        THEN [g EXCEPT !.pending_decision =
                Some(Decision(pid, "DiscardCards", None, player.hand,
                              discard_count, discard_count))]
        ELSE g

\* Game::player_discards
player_discards(w, pid, cards, maybe_effect) ==
    LET player == w.game.players[pid + 1]
        rest == subtract_vector(player.hand, cards)
        discarded == [w EXCEPT !.game.players[pid + 1].discard = @ \o cards,
                               !.game.players[pid + 1].hand = rest.vs]
    IN  IF w.panic # None THEN w
        ELSE IF ~rest.ok THEN Panic(w, "Unable to find index")
        ELSE IF maybe_effect = Some("DrawPerDiscard")
        THEN player_draws_cards(discarded, pid, Len(cards))
        ELSE discarded

\* Game::player_picks_gain
player_picks_gain(g, pid, lo, hi) ==
    LET cards == gainable_cards_costing(g, lo, hi)
    IN  IF cards # << >>
        THEN [g EXCEPT !.pending_decision =
                Some(Decision(pid, "GainCard", "GainToDiscard", cards, 1, 1))]
        ELSE g

\* Game::offer_player_trash
offer_player_trash(g, pid, maybe_card_type, followup) ==
    LET player == g.players[pid + 1]
        trashable == IF maybe_card_type # None
                     THEN filter_by_type(player.hand, maybe_card_type[1])
                     ELSE player.hand
    IN  IF trashable # << >>
        THEN [g EXCEPT !.pending_decision =
                Some(Decision(pid, "TrashCards", followup, trashable, 1, 1))]
        ELSE g

\* Game::offer_player_discard
offer_player_discard(g, pid, discard_effect) ==
    LET player == g.players[pid + 1]
    IN  IF player.hand = << >> THEN g
        ELSE [g EXCEPT !.pending_decision =
                Some(Decision(pid, "DiscardCards", Some(discard_effect),
                              player.hand, 0, Len(player.hand)))]

\* a turn change that leaves the coins of the last turn to the next player
next_turn_keeps_coins(g) ==
    [g EXCEPT
        !.turn = IF g.active_player + 1 = Len(g.players) THEN @ + 1 ELSE @,
        !.active_player = IF g.active_player + 1 = Len(g.players)
                          THEN 0 ELSE @ + 1,
        !.phase = "StartTurn",
        !.actions = 1,
        !.buys = 1,
        !.current_action_identifier = 0]

\* Game::next_turn
next_turn(g) ==
    [g EXCEPT
        !.turn = IF g.active_player + 1 = Len(g.players) THEN @ + 1 ELSE @,
        !.active_player = IF g.active_player + 1 = Len(g.players)
                          THEN 0 ELSE @ + 1,
        !.phase = "StartTurn",
        !.actions = 1,
        !.buys = 1,
        !.coins = 0,
        !.current_action_identifier = 0]

\* Game::process_effect
process_effect(w, e) ==
    IF e.kind = "ReactOption"
    THEN LET reactions == filter_by_type(w.game.players[e.pid + 1].hand,
                                         "Reaction")
         IN  IF reactions # << >>
             THEN [w EXCEPT !.game.pending_decision =
                     Some(Decision(e.pid, "RevealReaction", e.aid, reactions,
                                   0, 1))]
             ELSE w
    ELSE LET ca == e.action
         IN  CASE ca.kind = "DrawCards" -> player_draws_cards(w, e.pid, ca.n)
               [] ca.kind = "PlusActions" ->
                     [w EXCEPT !.game.actions = @ + ca.n]
               [] ca.kind = "PlusBuys" -> [w EXCEPT !.game.buys = @ + ca.n]
               [] ca.kind = "PlusCoins" -> [w EXCEPT !.game.coins = @ + ca.n]
               [] ca.kind = "OpponentsDiscardTo" ->
                     [w EXCEPT !.game = player_discards_to(@, e.pid, ca.n)]
               [] ca.kind = "GainCardCostingUpto" ->
                     [w EXCEPT !.game = player_picks_gain(@, e.pid, 0, ca.n)]
               [] ca.kind = "TrashCards" ->
                     [w EXCEPT !.game = offer_player_trash(@, e.pid,
                                            ca.card_type, ca.followup)]
               [] ca.kind = "DiscardForEffect" ->
                     [w EXCEPT !.game = offer_player_discard(@, e.pid,
                                            ca.discard_effect)]

\* the hand of the active player
active_hand(g) == g.players[g.active_player + 1].hand

\* Game::advance_game
advance_game(w) ==
    LET g == w.game
    IN  IF w.panic # None THEN w
        ELSE IF g.pending_decision # None
        THEN Panic(w, "Can't advance game with pending decision")
        ELSE IF g.pending_effects # << >>
        THEN process_effect([w EXCEPT !.game.pending_effects = Tail(@)],
                            Head(g.pending_effects))
        ELSE CASE g.phase = "StartTurn" -> [w EXCEPT !.game.phase = "Action"]
               [] g.phase = "Action" ->
                     LET actions == SelectSeq(active_hand(g),
                                        LAMBDA c : is_action(lookup_card(c)))
                     IN  IF g.actions = 0 \/ actions = << >>
                         THEN [w EXCEPT !.game.phase = "BuyPlayTreasure"]
                         ELSE [w EXCEPT !.game.pending_decision =
                                 Some(Decision(g.active_player, "PlayAction",
                                               None, actions, 0, 1))]
               [] g.phase = "BuyPlayTreasure" ->
                     LET treasures == SelectSeq(active_hand(g),
                                        LAMBDA c : is_treasure(lookup_card(c)))
                     IN  IF treasures = << >>
                         THEN [w EXCEPT !.game.phase = "BuyPurchaseCard"]
                         ELSE [w EXCEPT !.game.pending_decision =
                                 Some(Decision(g.active_player,
                                               "PlayTreasures", None,
                                               treasures, 0, Len(treasures)))]
               [] g.phase = "BuyPurchaseCard" ->
                     IF g.buys = 0
                     THEN [w EXCEPT !.game.phase = "Cleanup"]
                     ELSE [w EXCEPT !.game.pending_decision =
                             Some(Decision(g.active_player, "BuyCard", None,
                                     gainable_cards_costing(g, 0, g.coins),
                                     0, 1))]
               [] g.phase = "Cleanup" ->
                     LET player == discard_hand(g.players[g.active_player + 1])
                         cleaned == [w EXCEPT
                            !.game.players[g.active_player + 1] =
                                [player EXCEPT !.discard = @ \o g.play_area],
                            !.game.play_area = << >>]
                         drawn == player_draws_cards(cleaned, g.active_player,
                                                     PLAYER_HAND_SIZE)
                     IN  [drawn EXCEPT !.game.phase = "EndTurn"]
               [] g.phase = "EndTurn" -> [w EXCEPT !.game = next_turn(@)]

\* Game::gain_card
gain_card(w, player, ci, dest) ==
    IF w.panic # None THEN w
    ELSE IF ci \notin DOMAIN w.game.piles THEN Panic(w, "Cannot find pile")
    ELSE IF ~(w.game.piles[ci] > 0) THEN Panic(w, "Pile must not be empty")
    ELSE IF dest = "GainToDiscard"
    THEN [w EXCEPT !.game.piles[ci] = @ - 1,
                   !.game.players[player + 1].discard = Append(@, ci)]
    ELSE [w EXCEPT !.game.piles[ci] = @ - 1,
                   !.game.players[player + 1].hand = Append(@, ci)]

\* Game::buy_card
buy_card(w, player, ci) ==
    LET c == lookup_card(ci)
    IN  IF w.panic # None THEN w
        ELSE IF ~(w.game.buys > 0) THEN Panic(w, "Must have a buy")
        ELSE IF ~(w.game.coins >= c.cost)
        THEN Panic(w, "Must have enough coins")
        ELSE IF ci \notin DOMAIN w.game.piles THEN Panic(w, "Cannot find pile")
        ELSE IF ~(w.game.piles[ci] > 0) THEN Panic(w, "Pile must not be empty")
        ELSE [w EXCEPT !.game.buys = @ - 1,
                       !.game.coins = @ - c.cost,
                       !.game.piles[ci] = @ - 1,
                       !.game.players[player + 1].discard = Append(@, ci)]

\* Game::replace_card_by_cost
replace_card_by_cost(g, pid, trashed, plus_cost, maybe_card_type, dest) ==
    LET all == gainable_cards_costing(g, 0, trashed.cost + plus_cost)
        gainable == IF maybe_card_type # None
                    THEN filter_by_type(all, maybe_card_type[1])
                    ELSE all
    IN  IF gainable # << >>
        THEN [g EXCEPT !.pending_decision =
                Some(Decision(pid, "GainCard", dest, gainable, 1, 1))]
        ELSE g

\* Game::trash_cards
trash_cards(w, pid, cards, maybe_followup) ==
    LET rest == subtract_vector(w.game.players[pid + 1].hand, cards)
        trashed == [w EXCEPT !.game.players[pid + 1].hand = rest.vs,
                             !.game.trash_pile = @ \o cards]
    IN  IF w.panic # None THEN w
        ELSE IF cards = << >>
        THEN Panic(w, "Game::trash_cards called with no cards")
        ELSE IF ~rest.ok THEN Panic(w, "Unable to find index")
        ELSE IF maybe_followup = None THEN trashed
        ELSE IF Len(cards) # 1 THEN Panic(trashed, "assert_eq!(cards.len(), 1)")
        ELSE [trashed EXCEPT !.game =
                replace_card_by_cost(@, pid, lookup_card(cards[1]),
                                     maybe_followup[1].plus_cost,
                                     maybe_followup[1].card_type,
                                     maybe_followup[1].dest)]

\* a reveal that cancels the whole attack, its effects on the attacker too
player_reveals_reaction_cancels_attack(w, pid, c, aid) ==
    IF w.panic # None THEN w
    ELSE IF lookup_card(c).reaction_effect = None
    THEN Panic(w, "Card revealed to reaction is not a reaction")
    ELSE [w EXCEPT !.game.pending_effects =
            SelectSeq(@, LAMBDA q : ~(q.kind = "ActionEffect" /\ q.aid = aid))]

\* Game::player_reveals_reaction
player_reveals_reaction(w, pid, c, aid) ==
    IF w.panic # None THEN w
    ELSE IF lookup_card(c).reaction_effect = None
    THEN Panic(w, "Card revealed to reaction is not a reaction")
    ELSE [w EXCEPT !.game.pending_effects =
            SelectSeq(@, LAMBDA q : ~(/\ q.kind = "ActionEffect"
                                      /\ q.pid = pid
                                      /\ q.aid = aid))]

\* the width of PlayerIdentifier(u8)
U8 == 256

\* opponents counted from the active player instead of from the next one
players_for_target_from_active(num_players, target, active) ==
    CASE target = "ActivePlayer" -> <<active>>
      [] target = "Opponents" ->
            [i \in 1..(num_players - 1) |->
                (((i - 1) + active) % num_players) % U8]
      [] target = "AllPlayers" ->
            [i \in 1..num_players |-> (((i - 1) + active) % num_players) % U8]

\* Game::players_for_target over num_players players
players_for_target(num_players, target, active) ==
    CASE target = "ActivePlayer" -> <<active>>
      [] target = "Opponents" ->
            [i \in 1..(num_players - 1) |-> ((i + active) % num_players) % U8]
      [] target = "AllPlayers" ->
            [i \in 1..num_players |-> (((i - 1) + active) % num_players) % U8]

\* cards::target_for_action
target_for_action(action) ==
    IF action.kind = "OpponentsDiscardTo" THEN "Opponents" ELSE "ActivePlayer"

\* Game::queue_card_effects
queue_card_effects(g, pid, aid, action) ==
    LET targets == players_for_target(Len(g.players),
                                      target_for_action(action), pid)
    IN  [g EXCEPT !.pending_effects =
            @ \o [i \in 1..Len(targets) |->
                     ActionEffect(targets[i], aid, action)]]

RECURSIVE queue_all_effects(_, _, _, _)
\* the loop of play_action over card.action_effects
queue_all_effects(g, pid, aid, effects) ==
    IF effects = << >> THEN g
    ELSE queue_all_effects(queue_card_effects(g, pid, aid, Head(effects)),
                           pid, aid, Tail(effects))

\* a play_action that queues the reaction options behind the effects of
\* the card
play_action_reacts_last(w, pid, action) ==
    LET g == w.game
        hand_idx == position(g.players[pid + 1].hand, action)
        aid == g.current_action_identifier + 1
        card == lookup_card(action)
        opponents == players_for_target(Len(g.players), "Opponents", pid)
        played == [g EXCEPT
            !.players[pid + 1].hand = RemoveAt(@, hand_idx - 1),
            !.play_area = Append(@, action),
            !.current_action_identifier = aid]
        queued == queue_all_effects(played, pid, aid, card.action_effects)
    IN  IF w.panic # None THEN w
        ELSE IF ~(g.actions > 0) THEN Panic(w, "Must have an action")
        ELSE IF g.phase # "Action"
        THEN Panic(w, "assert_eq!(self.phase, Phase::Action)")
        ELSE IF pid # g.active_player
        THEN Panic(w, "assert_eq!(pid, self.active_player)")
        ELSE IF hand_idx = 0 THEN Panic(w, "Player doesn't have card in hand")
        ELSE [w EXCEPT !.game =
                [queued EXCEPT !.pending_effects =
                    IF card.is_attack
                    THEN @ \o [i \in 1..Len(opponents) |->
                                  ReactOption(opponents[i], aid)]
                    ELSE @]]

\* Game::play_action
play_action(w, pid, action) ==
    LET g == w.game
        hand_idx == position(g.players[pid + 1].hand, action)
        aid == g.current_action_identifier + 1
        card == lookup_card(action)
        opponents == players_for_target(Len(g.players), "Opponents", pid)
        played == [g EXCEPT
            !.players[pid + 1].hand = RemoveAt(@, hand_idx - 1),
            !.play_area = Append(@, action),
            !.current_action_identifier = aid,
            !.pending_effects =
                IF card.is_attack
                THEN @ \o [i \in 1..Len(opponents) |->
                              ReactOption(opponents[i], aid)]
                ELSE @]
    IN  IF w.panic # None THEN w
        ELSE IF ~(g.actions > 0) THEN Panic(w, "Must have an action")
        ELSE IF g.phase # "Action"
        THEN Panic(w, "assert_eq!(self.phase, Phase::Action)")
        ELSE IF pid # g.active_player
        THEN Panic(w, "assert_eq!(pid, self.active_player)")
        ELSE IF hand_idx = 0 THEN Panic(w, "Player doesn't have card in hand")
        ELSE [w EXCEPT !.game =
                queue_all_effects(played, pid, aid, card.action_effects)]

RECURSIVE coin_values(_)
\* the sum of coin_value.unwrap() over the cards play_treasures plays
coin_values(cards) ==
    IF cards = << >> THEN 0
    ELSE lookup_card(Head(cards)).coin_value[1] + coin_values(Tail(cards))

\* Game::play_treasures
play_treasures(w, pid, cards) ==
    LET rest == subtract_vector(w.game.players[pid + 1].hand, cards)
    IN  IF w.panic # None THEN w
        ELSE IF \E i \in 1..Len(cards) : ~is_treasure(lookup_card(cards[i]))
        THEN Panic(w, "Can only play treasures")
        ELSE IF ~rest.ok THEN Panic(w, "Unable to find index")
        ELSE [w EXCEPT !.game.coins = @ + coin_values(cards),
                       !.game.play_area = @ \o cards,
                       !.game.players[pid + 1].hand = rest.vs]

\* Game::resolve_decision
resolve_decision(w, cards) ==
    IF w.panic # None THEN w
    ELSE IF w.game.pending_decision = None
    THEN Panic(w, "Game::resolve_decision called without pending decision")
    ELSE
    LET decision == w.game.pending_decision[1]
        kind == decision.decision_type.kind
        arg == decision.decision_type.arg
        taken == [w EXCEPT !.game.pending_decision = None]
    IN  CASE kind = "PlayAction" ->
                IF Len(cards) > 1
                THEN Panic(taken, "Can only play at most one action")
                ELSE IF cards # << >>
                THEN play_action(taken, decision.player, cards[1])
                ELSE [taken EXCEPT !.game.phase = "BuyPlayTreasure"]
          [] kind = "PlayTreasures" ->
                LET played == IF cards # << >>
                              THEN play_treasures(taken, decision.player, cards)
                              ELSE taken
                IN  IF played.panic # None THEN played
                    ELSE [played EXCEPT !.game.phase = "BuyPurchaseCard"]
          [] kind = "BuyCard" ->
                IF Len(cards) > 1
                THEN Panic(taken, "Can only buy at most one card")
                ELSE IF cards # << >>
                THEN buy_card(taken, decision.player, cards[1])
                ELSE [taken EXCEPT !.game.phase = "Cleanup"]
          [] kind = "DiscardCards" ->
                IF cards # << >>
                THEN player_discards(taken, decision.player, cards, arg)
                ELSE taken
          [] kind = "GainCard" ->
                IF Len(cards) > 1
                THEN Panic(taken, "Can only gain at most one card")
                ELSE IF cards # << >>
                THEN gain_card(taken, decision.player, cards[1], arg)
                ELSE taken
          [] kind = "RevealReaction" ->
                IF cards # << >>
                THEN player_reveals_reaction(taken, decision.player,
                                             cards[1], arg)
                ELSE taken
          [] kind = "TrashCards" ->
                IF cards # << >>
                THEN trash_cards(taken, decision.player, cards, arg)
                ELSE taken

\* an end of game that does not wait for the end of the turn
is_game_over_in_any_phase(g) ==
    \/ g.piles["Province"] = 0
    \/ Cardinality({c \in DOMAIN g.piles : g.piles[c] = 0})
          >= EMPTY_PILES_FOR_GAME_END

\* ------------------------------------------------------- game_scoring.rs
\* Game::is_game_over
is_game_over(g) ==
    /\ g.phase = "EndTurn"
    /\ \/ g.piles["Province"] = 0
       \/ Cardinality({c \in DOMAIN g.piles : g.piles[c] = 0})
             >= EMPTY_PILES_FOR_GAME_END

\* Game::player_vp_and_turns: for each player the pair of the points of all
\* the player's cards and the number of turns the player has had
player_vp_and_turns(g) ==
    [i \in 1..Len(g.players) |->
        <<score_cards(all_cards(g.players[i])),
          IF i - 1 <= g.active_player THEN g.turn ELSE g.turn - 1>>]

\* the key high_score is the maximum of: (points, -turns), compared as tuples
key_less_or_equal(a, b) ==
    \/ a[1] < b[1]
    \/ a[1] = b[1] /\ -a[2] <= -b[2]

\* the pair max_by_key picks: the last of the maximal ones
high_score(points) ==
    points[CHOOSE i \in 1..Len(points) :
        /\ \A j \in 1..Len(points) : key_less_or_equal(points[j], points[i])
        /\ \A j \in (i + 1)..Len(points) :
              ~key_less_or_equal(points[i], points[j])]

\* scores in which a shared first place counts for nothing
player_scores_no_shared_win(g) ==
    LET points == player_vp_and_turns(g)
        winners == SelectSeq(points, LAMBDA pair : pair = high_score(points))
    IN  [i \in 1..Len(g.players) |->
            <<i - 1,
              IF points[i] = high_score(points) /\ Len(winners) = 1
              THEN <<1, 1>> ELSE <<0, 1>> >>]

\* Game::player_scores of a finished game: for each player the identifier
\* and the score, the fraction <<1, number of winners>> or <<0, 1>>
player_scores(g) ==
    LET points == player_vp_and_turns(g)
        winners == SelectSeq(points, LAMBDA pair : pair = high_score(points))
    IN  [i \in 1..Len(g.players) |->
            <<i - 1,
              IF points[i] = high_score(points)
              THEN <<1, Len(winners)>> ELSE <<0, 1>> >>]

\* ------------------------- search_decider.rs: SearchableState for Game
\* Game::game_result: the players whose score is positive
Game_game_result(g) ==
    IF is_game_over(g)
    THEN LET scores == player_scores(g)
             pids == [i \in 1..Len(scores) |-> scores[i][1]]
         IN  Some(SelectSeq(pids, LAMBDA pid : scores[pid + 1][2][1] > 0))
    ELSE None

\* Game::all_players
Game_all_players(g) == <<0, 1>>

\* Game::active_player
Game_active_player(g) ==
    IF g.pending_decision = None THEN None
    ELSE Some(g.pending_decision[1].player)

\* hard_coded_decision
hard_coded_decision(d) ==
    IF d.decision_type.kind = "PlayTreasures" THEN Some(d.choices) ELSE None

RECURSIVE combinations(_, _)
\* Itertools::combinations(k): the k-element subsequences, in the
\* lexicographic order of their positions
combinations(seq, k) ==
    IF k = 0 THEN << << >> >>
    ELSE IF Len(seq) < k THEN << >>
    ELSE LET with_head == combinations(Tail(seq), k - 1)
         IN  [i \in 1..Len(with_head) |-> <<Head(seq)>> \o with_head[i]]
                \o combinations(Tail(seq), k)

RECURSIVE moves_of_sizes(_, _, _)
\* the loop of all_moves over the sizes i..hi
moves_of_sizes(choices, i, hi) ==
    IF i > hi THEN << >>
    ELSE (CASE i = 0 -> << << >> >>
            [] i = 1 -> [j \in 1..Len(choices) |-> <<choices[j]>>]
            [] OTHER -> combinations(choices, i))
         \o moves_of_sizes(choices, i + 1, hi)

\* Game::all_moves panics when the game is not over and nothing is pending
Game_all_moves_panics(g) == ~is_game_over(g) /\ g.pending_decision = None

\* Game::all_moves (the empty list where it panics)
Game_all_moves(g) ==
    IF is_game_over(g) \/ g.pending_decision = None THEN << >>
    ELSE LET d == g.pending_decision[1]
         IN  IF hard_coded_decision(d) # None THEN <<hard_coded_decision(d)[1]>>
             ELSE moves_of_sizes(d.choices, d.range[1], d.range[2])

RECURSIVE advance_while_decided(_)
\* a loop that advances once more after a decision has been created
advance_while_decided(w) ==
    IF w.panic # None \/ is_game_over(w.game) THEN w
    ELSE IF w.game.pending_decision = None
    THEN advance_while_decided(advance_game(w))
    ELSE advance_game(w)

RECURSIVE advance_while(_)
\* while !is_game_over() && pending_decision.is_none() { advance_game(ctx) }
advance_while(w) ==
    IF w.panic = None /\ ~is_game_over(w.game) /\ w.game.pending_decision = None
    THEN advance_while(advance_game(w))
    ELSE w

\* a make_move_mut that stops after the decision is resolved
Game_make_move_mut_no_advance(w, choice) == resolve_decision(w, choice)

\* Game::make_move_mut
Game_make_move_mut(w, choice) == advance_while(resolve_decision(w, choice))

\* Game::make_move: the same on a clone of the game
Game_make_move(w, choice) ==
    LET game_copy == [w EXCEPT !.game = w.game]
    IN  advance_while(resolve_decision(game_copy, choice))

\* a call of make_move that works on the receiver instead of a clone
Game_make_move_call_in_place(w, choice) ==
    [self |-> Game_make_move_mut(w, choice).game,
     ret |-> Game_make_move_mut(w, choice)]

\* a call of Game::make_move: the receiver (&self) after the call, and the
\* game returned with the context and the panic the call leaves
Game_make_move_call(w, choice) ==
    [self |-> w.game, ret |-> Game_make_move(w, choice)]

\* ------------------------------------------------- the card game, played
\* the game, its context and its panic as one record
World == [game |-> game, rng |-> ctx_rng, panic |-> game_panic]

\* what a step leaves in the three variables
Becomes(w) ==
    /\ game' = w.game
    /\ ctx_rng' = w.rng
    /\ game_panic' = w.panic

\* the number of turns begun before the current one
turn_index(g) == (g.turn - 1) * Len(g.players) + g.active_player

\* hands, decks, discard piles and supplies the games start from
GameDeals ==
    {<<<<"Militia", "Copper", "Copper", "Estate", "Copper">>,
       <<"Moat", "Copper", "Estate", "Copper", "Copper">>>>,
     <<<<"Militia", "Copper", "Copper", "Estate", "Copper">>,
       <<"Copper", "Copper", "Estate", "Copper", "Estate">>>>,
     <<<<"Workshop", "Remodel", "Copper">>,
       <<"Village", "Militia", "Copper", "Estate", "Copper">>>>,
     <<<<"Cellar", "Copper", "Estate">>,
       <<"Copper", "Copper", "Estate", "Copper", "Copper">>>>}

GamePiles ==
    {[c \in {"Province", "Copper", "Estate", "Militia"} |-> 1],
     [c \in {"Province", "Copper", "Estate", "Militia"} |->
        IF c = "Province" THEN 0 ELSE 1],
     [c \in {"Province", "Copper", "Estate", "Militia"} |->
        IF c \in {"Province", "Copper"} THEN 1 ELSE 0]}

\* a game at the start of a turn, as fresh_game builds it but for the
\* cards, the supply and the player whose turn it is
game_at_start(active, hand0, hand1, piles) ==
    [turn |-> 1,
     active_player |-> active,
     phase |-> "StartTurn",
     actions |-> 1,
     buys |-> 1,
     coins |-> 0,
     current_action_identifier |-> 0,
     piles |-> piles,
     play_area |-> << >>,
     trash_pile |-> << >>,
     players |-> <<[hand |-> hand0, deck |-> <<"Estate", "Copper", "Copper">>,
                    discard |-> << >>],
                   [hand |-> hand1, deck |-> << >>,
                    discard |-> <<"Copper", "Estate", "Copper">>]>>,
     pending_decision |-> None,
     pending_effects |-> << >>]

\* the search is not running while the card game is played
NoSearch ==
    /\ domain = "nim"
    /\ root_state = [total |-> 0, player_turn |-> 0]
    /\ max_iters = 0
    /\ debug = FALSE
    /\ pc = "idle"
    /\ nodes = << >>
    /\ iter = 0
    /\ node_ref = Root
    /\ sim = root_state
    /\ result = << >>
    /\ best_move = None
    /\ panic_msg = None
    /\ expansions = 0
    /\ dump = << >>
    /\ rollout_moves = 0
    /\ call = 1
    /\ first_move = None
    /\ first_seed = 0
    /\ first_tree = << >>
    /\ seed = 0
    /\ rng = 0

InitGame ==
    /\ NoSearch
    /\ \E active \in {0, 1}, deal \in GameDeals, piles \in GamePiles :
          game = game_at_start(active, deal[1], deal[2], piles)
    /\ ctx_rng \in 0..(GameSeeds - 1)
    /\ game_panic = None
    /\ StaticsUntouched

\* the game goes on: no panic, not over, and not beyond the last turn
\* followed
game_goes_on(w) ==
    /\ w.panic = None
    /\ ~is_game_over(w.game)
    /\ turn_index(w.game) <= MaxTurnIndex

\* run_game: nothing is pending, advance_game
GameAdvance ==
    /\ game_goes_on(World)
    /\ game.pending_decision = None
    /\ turn_index(advance_game(World).game) <= MaxTurnIndex
    /\ Becomes(advance_game(World))
    /\ UNCHANGED <<statics_vars, input_vars, search_vars, call_vars, rng>>

\* run_game: a decision is pending, the decider of its player answers with
\* one of the moves all_moves lists and resolve_decision applies it
GameResolve ==
    /\ game_goes_on(World)
    /\ game.pending_decision # None
    /\ \E i \in 1..Len(Game_all_moves(game)) :
          Becomes(resolve_decision(World, Game_all_moves(game)[i]))
    /\ UNCHANGED <<statics_vars, input_vars, search_vars, call_vars, rng>>

\* one turn of the loop of simulate_until_terminal on the card game:
\* make_move_mut with one of the moves of all_moves
GameMakeMove ==
    /\ game_goes_on(World)
    /\ game.pending_decision # None
    /\ \E i \in 1..Len(Game_all_moves(game)) :
          LET moved == Game_make_move_mut(World, Game_all_moves(game)[i])
          IN  /\ turn_index(moved.game) <= MaxTurnIndex
              /\ Becomes(moved)
    /\ UNCHANGED <<statics_vars, input_vars, search_vars, call_vars, rng>>

NextGame ==
    \/ GameAdvance
    \/ GameResolve
    \/ GameMakeMove

SpecGame == InitGame /\ [][NextGame]_vars

\* ------------------------------------------------------------------ C15
\* C15: every terminal state of an implemented domain has a non-empty list
\* of winners: game_result() of a NimState with total = 0 is present and
\* not empty, and so is game_result() of a card Game for which
\* is_game_over() holds.
C15_TerminalHasWinners ==
    /\ \A s \in RootStates(MaxTotal) :
          s.total = 0 =>
              nim_game_result(s) # None /\ nim_game_result(s)[1] # << >>
    /\ is_game_over(game) =>
          /\ Game_game_result(game) # None
          /\ Game_game_result(game)[1] # << >>

\* a card game is over and both players share the first place
C15_Witness ==
    /\ is_game_over(game)
    /\ Game_game_result(game) = Some(<<0, 1>>)

\* ------------------------------------------------------------------ C16
\* C16: every rollout from a NimState terminates. Each move of the rollout
\* strictly decreases the total and leaves it at 0 or more, no rollout makes
\* more moves than the total of the state it started from (the state of the
\* working node), and the rollout stops only at total = 0, where
\* game_result() is present.
C16_NimRolloutTerminates ==
    [][(domain = "nim" /\ pc = "rollout") =>
          /\ pc' = "rollout" =>
                /\ sim'.total < sim.total
                /\ sim'.total >= 0
                /\ rollout_moves' <= nodes[node_ref].state.total
          /\ pc' # "rollout" =>
                /\ sim.total = 0
                /\ game_result(sim) # None
                /\ pc' = "backprop"]_vars

\* a rollout of three moves from total 3 has ended
C16_Witness ==
    /\ domain = "nim"
    /\ pc = "backprop"
    /\ nodes[node_ref].state.total = 3
    /\ rollout_moves = 3
    /\ sim.total = 0

\* what C17 asks of a state a move has produced: no legal move exactly when
\* the game is over, else a pending decision with at least one legal move;
\* and where there is no legal move there is a game result
moves_exhausted_only_at_end(w) ==
    /\ w.panic = None
    /\ ~Game_all_moves_panics(w.game)
    /\ (Game_all_moves(w.game) = << >>) <=> is_game_over(w.game)
    /\ ~is_game_over(w.game) =>
          /\ w.game.pending_decision # None
          /\ Game_all_moves(w.game) # << >>
    /\ Game_all_moves(w.game) = << >> => Game_game_result(w.game) # None

\* C17: every state that make_move or make_move_mut produces from a state
\* with a pending decision has no legal move exactly when the game is over;
\* when it is not over a decision is pending and there is a legal move, so a
\* rollout that stops for lack of moves stops at a state with a game result.
C17_NoMovesMeansOver ==
    (game_panic = None /\ ~is_game_over(game) /\ game.pending_decision # None) =>
        \A i \in 1..Len(Game_all_moves(game)) :
            /\ moves_exhausted_only_at_end(
                   Game_make_move_mut(World, Game_all_moves(game)[i]))
            /\ moves_exhausted_only_at_end(
                   Game_make_move(World, Game_all_moves(game)[i]))

\* a move is pending whose result is a finished game, and another position
\* where a move leads to the next decision
C17_Witness ==
    /\ game_panic = None
    /\ ~is_game_over(game)
    /\ game.pending_decision # None
    /\ \E i \in 1..Len(Game_all_moves(game)) :
          LET moved == Game_make_move_mut(World, Game_all_moves(game)[i])
          IN  /\ is_game_over(moved.game)
              /\ Game_all_moves(moved.game) = << >>
              /\ Game_game_result(moved.game) # None
    /\ \E i \in 1..Len(Game_all_moves(game)) :
          LET moved == Game_make_move_mut(World, Game_all_moves(game)[i])
          IN  /\ ~is_game_over(moved.game)
              /\ moved.game.pending_decision # None

\* C18: for every state and legal move, make_move returns the state that
\* make_move_mut leaves when applied to a copy of the state with the same
\* move, and the receiver of make_move is unchanged by the call; for NimState
\* and for the card Game (where both start from the same context).
C18_PureAgreesWithInPlace ==
    /\ \A s \in RootStates(MaxTotal) : \A i \in 1..Len(all_moves(s)) :
          LET m == all_moves(s)[i]
              called == make_move_call(s, m)
          IN  /\ called.ret = make_move_mut(s, m)
              /\ called.self = s
    /\ (game_panic = None /\ ~is_game_over(game) /\ game.pending_decision # None) =>
          \A i \in 1..Len(Game_all_moves(game)) :
              LET m == Game_all_moves(game)[i]
                  called == Game_make_move_call(World, m)
              IN  /\ called.ret = Game_make_move_mut(World, m)
                  /\ called.self = game

\* a position of the card game with a legal move that changes the game, and
\* a Nim state with a legal move that changes it
C18_Witness ==
    /\ game_panic = None
    /\ ~is_game_over(game)
    /\ game.pending_decision # None
    /\ \E i \in 1..Len(Game_all_moves(game)) :
          LET called == Game_make_move_call(World, Game_all_moves(game)[i])
          IN  /\ called.ret.panic = None
              /\ called.ret.game # game
              /\ called.ret.game = Game_make_move_mut(World, Game_all_moves(game)[i]).game
              /\ called.self = game
    /\ \E s \in RootStates(MaxTotal) : \E i \in 1..Len(all_moves(s)) :
          /\ make_move_call(s, all_moves(s)[i]).ret # s
          /\ make_move_call(s, all_moves(s)[i]).self = s

\* how many times card c occurs in a sequence of cards
card_count(cards, c) == Cardinality({i \in 1..Len(cards) : cards[i] = c})

\* two sequences of cards hold the same cards, each as many times
same_cards(a, b) ==
    /\ Len(a) = Len(b)
    /\ \A c \in {a[i] : i \in 1..Len(a)} : card_count(a, c) = card_count(b, c)

\* the largest number of cards one call draws in the games played
MaxDraw == PLAYER_HAND_SIZE

\* C19: draw_cards and discard_hand keep the multiset of a player's cards
\* (hand + deck + discard). draw_cards(n) appends exactly
\* min(n, |deck| + |discard|) cards to the hand; when the deck holds at least
\* n cards the discard pile is untouched and the deck loses its last n cards;
\* the discard pile is emptied into the deck only when the deck holds fewer
\* than n cards. discard_hand appends the whole hand to the discard pile and
\* leaves the hand empty and the deck as it was.
C19_DrawAndDiscardKeepCards ==
    game_panic = None =>
        \A p \in 1..Len(game.players) :
            LET player == game.players[p]
                discarded == discard_hand(player)
            IN  /\ same_cards(all_cards(discarded), all_cards(player))
                /\ discarded.hand = << >>
                /\ discarded.discard = player.discard \o player.hand
                /\ discarded.deck = player.deck
                /\ \A n \in 1..MaxDraw :
                      LET drawn == draw_cards(player, n, ctx_rng).player
                          moved == Min(n, Len(player.deck) + Len(player.discard))
                      IN  /\ same_cards(all_cards(drawn), all_cards(player))
                          /\ Len(drawn.hand) = Len(player.hand) + moved
                          /\ SubSeq(drawn.hand, 1, Len(player.hand)) = player.hand
                          /\ Len(drawn.deck) + Len(drawn.discard) =
                                 Len(player.deck) + Len(player.discard) - moved
                          /\ Len(player.deck) >= n =>
                                /\ drawn.discard = player.discard
                                /\ drawn.deck = SubSeq(player.deck, 1, Len(player.deck) - n)
                          /\ drawn.discard # player.discard => Len(player.deck) < n
                          /\ Len(player.deck) < n => drawn.discard = << >>

\* a player whose deck is too short for the draw and whose discard pile is
\* shuffled in, with cards left in the deck afterwards; and a player with a
\* hand to discard
C19_Witness ==
    /\ game_panic = None
    /\ \E p \in 1..Len(game.players) : \E n \in 1..MaxDraw :
          LET player == game.players[p]
              drawn == draw_cards(player, n, ctx_rng).player
          IN  /\ player.deck # << >>
              /\ Len(player.deck) < n
              /\ Len(player.discard) > 1
              /\ drawn.discard = << >>
              /\ drawn.deck # << >>
              /\ Len(drawn.hand) = Len(player.hand) + n
              /\ player.hand # << >>
              /\ discard_hand(player).discard = player.discard \o player.hand

\* the attacks with OpponentsDiscardTo(DiscardTo) the pending PlayAction
\* decision of a game offers
DiscardTo == 3

discard_attacks(g) ==
    IF g.pending_decision = None
          \/ g.pending_decision[1].decision_type.kind # "PlayAction"
    THEN {}
    ELSE {g.pending_decision[1].choices[i] : i \in
            {j \in 1..Len(g.pending_decision[1].choices) :
                LET card == lookup_card(g.pending_decision[1].choices[j])
                IN  /\ card.is_attack
                    /\ \E k \in 1..Len(card.action_effects) :
                          card.action_effects[k] = OpponentsDiscardTo(DiscardTo)}}

\* the moves of the player who decides in w, as a set
moves_at(w) == {Game_all_moves(w.game)[i] : i \in 1..Len(Game_all_moves(w.game))}

\* the decision pending in w belongs to player pid
decision_of(w, pid) ==
    /\ w.panic = None
    /\ w.game.pending_decision # None
    /\ w.game.pending_decision[1].player = pid

\* opponent opp is asked in w2 to discard from hand down to DiscardTo cards;
\* whatever cards they choose, they are left with DiscardTo cards and the
\* next decision is the attacker's
discards_then_attacker_decides(w2, opp, attacker, hand) ==
    /\ decision_of(w2, opp)
    /\ w2.game.pending_decision[1].decision_type.kind = "DiscardCards"
    /\ w2.game.pending_decision[1].choices = hand
    /\ w2.game.pending_decision[1].range =
           <<Len(hand) - DiscardTo, Len(hand) - DiscardTo>>
    /\ moves_at(w2) # {}
    /\ \A d \in moves_at(w2) :
          LET w3 == Game_make_move(w2, d)
          IN  /\ Len(d) = Len(hand) - DiscardTo
              /\ Len(w3.game.players[opp + 1].hand) = DiscardTo
              /\ decision_of(w3, attacker)

\* opponent opp, who revealed an immunity, is asked for no discard: the next
\* decision is the attacker's and the hand is as it was
immune_then_attacker_decides(w2, opp, attacker, hand) ==
    /\ decision_of(w2, attacker)
    /\ w2.game.players[opp + 1].hand = hand

\* the decision after the attack is one of opponent opp: to reveal a
\* reaction, or at once to discard
reaction_asked(w1, opp) ==
    /\ decision_of(w1, opp)
    /\ w1.game.pending_decision[1].decision_type.kind = "RevealReaction"

\* the cases C20 is about: an attack a the active player may play now and
\* an opponent opp who holds more than DiscardTo cards
attack_cases ==
    LET opps == players_for_target(Len(game.players), "Opponents",
                                   game.active_player)
    IN  IF game_panic # None \/ is_game_over(game) THEN {}
        ELSE {c \in discard_attacks(game) \X {opps[k] : k \in 1..Len(opps)} :
                Len(game.players[c[2] + 1].hand) > DiscardTo}

RECURSIVE queued_coins(_, _)
queued_coins(effects, pid) ==
    IF effects = << >> THEN 0
    ELSE (IF /\ effects[1].kind = "ActionEffect"
             /\ effects[1].pid = pid
             /\ effects[1].action.kind = "PlusCoins"
          THEN effects[1].action.n ELSE 0)
         + queued_coins(Tail(effects), pid)

\* an opponent of the active player is asked to reveal a reaction
reveal_pending ==
    /\ game_panic = None
    /\ ~is_game_over(game)
    /\ game.pending_decision # None
    /\ game.pending_decision[1].decision_type.kind = "RevealReaction"
    /\ game.pending_decision[1].player # game.active_player

turn_order_from(n, first, count) == [i \in 1..count |-> (first + (i - 1)) % n]

\* the elements of a sequence
elements(seq) == {seq[i] : i \in 1..Len(seq)}

\* C22: for n players and active player a, players_for_target returns [a]
\* for ActivePlayer; for Opponents the n - 1 other players in turn order
\* starting with (a + 1) mod n, never a and none twice; for AllPlayers all n
\* players in turn order starting with a. For the game being played that is
\* the other player, and both players from the active one.
C22_TargetsInTurnOrder ==
    /\ \A n \in 1..MaxPlayers : \A a \in 0..(n - 1) :
          LET opponents == players_for_target(n, "Opponents", a)
              everyone == players_for_target(n, "AllPlayers", a)
          IN  /\ players_for_target(n, "ActivePlayer", a) = <<a>>
              /\ opponents = turn_order_from(n, (a + 1) % n, n - 1)
              /\ Len(opponents) = n - 1
              /\ a \notin elements(opponents)
              /\ Cardinality(elements(opponents)) = n - 1
              /\ elements(opponents) = (0..(n - 1)) \ {a}
              /\ everyone = turn_order_from(n, a, n)
              /\ everyone = <<a>> \o opponents
              /\ elements(everyone) = 0..(n - 1)
    /\ game_panic = None =>
          /\ players_for_target(Len(game.players), "Opponents",
                                game.active_player)
                 = <<(game.active_player + 1) % 2>>
          /\ \A i \in 1..Len(game.pending_effects) :
                game.pending_effects[i].kind = "ReactOption" =>
                    game.pending_effects[i].pid # game.active_player

\* the three calls of test_player_targets give its three results, and in
\* the game being played an attack has queued its reaction offer for the
\* opponent of the active player
C22_Witness ==
    /\ players_for_target(3, "ActivePlayer", 1) = <<1>>
    /\ players_for_target(3, "Opponents", 1) = <<2, 0>>
    /\ players_for_target(3, "AllPlayers", 1) = <<1, 2, 0>>
    /\ game_panic = None
    /\ game.pending_effects # << >>
    /\ game.pending_effects[1] =
           ReactOption(players_for_target(Len(game.players), "Opponents",
                                          game.active_player)[1],
                       game.current_action_identifier)

\* ------------------------------------------- the card statics, accessed
\* code outside the initialiser of CARDS (a test, a game, on any thread)
\* accesses a card static for the first time
AccessCard ==
    /\ cards_static = None
    /\ early_accesses < MaxEarlyAccess
    /\ \E c \in DOMAIN identifier :
          /\ identifier[c] = 0
          /\ identifier' = force_card(identifier, card_id_counter, c).identifier
          /\ card_id_counter' = force_card(identifier, card_id_counter, c).counter
    /\ early_accesses' = early_accesses + 1
    /\ UNCHANGED <<forced, cards_static>>
    /\ UNCHANGED <<input_vars, search_vars, call_vars, rng, card_vars>>

\* the initialiser of CARDS evaluates the next element of its vec!
ForceNext ==
    /\ cards_static = None
    /\ forced < Len(CARDS_vec)
    /\ LET made == force_card(identifier, card_id_counter, CARDS_vec[forced + 1])
       IN  /\ identifier' = made.identifier
           /\ card_id_counter' = made.counter
    /\ forced' = forced + 1
    /\ UNCHANGED <<cards_static, early_accesses>>
    /\ UNCHANGED <<input_vars, search_vars, call_vars, rng, card_vars>>

\* the initialiser of CARDS sorts the vector and returns
SortCARDS ==
    /\ cards_static = None
    /\ forced = Len(CARDS_vec)
    /\ cards_static' = Some(sort_cards_by_identifier(identifier, CARDS_vec))
    /\ UNCHANGED <<card_id_counter, identifier, forced, early_accesses>>
    /\ UNCHANGED <<input_vars, search_vars, call_vars, rng, card_vars>>

InitCards ==
    /\ NoSearch
    /\ NoGame
    /\ StaticsUntouched

NextCards ==
    \/ AccessCard
    \/ ForceNext
    \/ SortCARDS

SpecCards == InitCards /\ [][NextCards]_vars

\* ------------------------------------------------------------------ C23
\* C23: whatever the order in which the card statics are first accessed,
\* the cards made so far have identifiers that differ, and once CARDS is
\* built every card c of it has lookup_card(c.identifier).identifier =
\* c.identifier (CARDS holds each card of its vec! once).
C23_LookupRoundTrips ==
    /\ \A c, d \in DOMAIN identifier :
          (identifier[c] # 0 /\ identifier[c] = identifier[d]) => c = d
    /\ cards_static # None =>
          /\ Len(cards_static[1]) = Len(CARDS_vec)
          /\ \A i \in 1..Len(cards_static[1]) :
                LET c == cards_static[1][i]
                IN  /\ identifier[c] \in 1..Len(cards_static[1])
                    /\ identifier[lookup_in(cards_static[1], identifier[c])]
                           = identifier[c]
                    /\ lookup_in(cards_static[1], identifier[c]) = c

\* CARDS is built after Moat, the last element of the vec!, was accessed on
\* its own, so that the identifiers do not follow the order of the vec!
C23_Witness ==
    /\ cards_static # None
    /\ identifier["Moat"] = 1
    /\ identifier["Copper"] = 2
    /\ cards_static[1] # CARDS_vec
    /\ lookup_in(cards_static[1], 1) = "Moat"

\* ------------------------------------------------------------------ C24
RECURSIVE path_to_root(_, _)
\* the node n and the nodes its parent links lead through
path_to_root(ns, n) ==
    IF ns[n].parent = None THEN {n}
    ELSE {n} \cup path_to_root(ns, ns[n].parent[1])

\* C24: the backpropagation of an iteration adds exactly 1 to visits of the
\* working node and of each of its strict ancestors, the root among them,
\* (one update_with_result each: wins grows by the credit of one update)
\* and leaves every node off that path, and everything but wins and visits
\* of the nodes on it, unchanged.
C24_BackpropagatesAlongPath ==
    [][pc = "backprop" =>
        /\ Len(nodes') = Len(nodes)
        /\ Root \in path_to_root(nodes, node_ref)
        /\ \A n \in 1..Len(nodes) :
              IF n \in path_to_root(nodes, node_ref)
              THEN nodes'[n] = [nodes[n] EXCEPT
                                   !.visits = @ + 1,
                                   !.wins = @ + C7_Credit(nodes[n], result)]
              ELSE nodes'[n] = nodes[n]]_vars

\* a backpropagation has just run from a working node two levels below the
\* root, in a tree with a visited node off the path
C24_Witness ==
    /\ pc = "loop"
    /\ iter >= 1
    /\ Cardinality(path_to_root(nodes, node_ref)) >= 3
    /\ \A n \in path_to_root(nodes, node_ref) : nodes[n].visits >= 1
    /\ \E n \in 1..Len(nodes) :
          /\ n \notin path_to_root(nodes, node_ref)
          /\ nodes[n].visits >= 1

\* ------------------------------------------------------------------ C25
\* the root node find_best_move builds for a card Game
Game_root_node(g) ==
    [state |-> g,
     wins |-> 0,
     visits |-> 0,
     last_move |-> None,
     untried_moves |-> Game_all_moves(g),
     player_just_moved |-> Game_all_players(g)[Len(Game_all_players(g))],
     parent |-> None,
     children |-> << >>]

\* expand_node_by_move on a tree of card Games, r the rng of the context
Game_expand_node_by_move(ns, n, move_idx, r) ==
    LET node == ns[n]
        picked_move == node.untried_moves[move_idx + 1]
        new_state == Game_make_move([game |-> node.state, rng |-> r,
                                     panic |-> None], picked_move).game
        new_node == [state |-> new_state,
                     wins |-> 0,
                     visits |-> 0,
                     last_move |-> Some(picked_move),
                     untried_moves |-> Game_all_moves(new_state),
                     player_just_moved |-> Game_active_player(node.state)[1],
                     parent |-> Some(n),
                     children |-> << >>]
        id == Len(ns) + 1
    IN  Append([ns EXCEPT ![n].untried_moves = RemoveAt(@, move_idx),
                          ![n].children = Append(@, id)],
               new_node)

\* the moves of the children of node n
tried_moves(ns, n) ==
    {ns[ns[n].children[i]].last_move[1] : i \in 1..Len(ns[n].children)}

\* C25 as stated, for the tree find_best_move has after its first expansion
\* from the card Game being played: the untried moves of the root and the
\* last moves of its children are disjoint, and together they are the legal
\* moves of the root's state, also when that list holds a move twice.
C25_UntriedAndTriedDisjoint ==
    (game_panic = None /\ ~is_game_over(game) /\ game.pending_decision # None) =>
        \A move_idx \in 0..(Len(Game_all_moves(game)) - 1) :
            LET ns == Game_expand_node_by_move(<<Game_root_node(game)>>, Root,
                                               move_idx, ctx_rng)
            IN  /\ elements(ns[Root].untried_moves) \cap tried_moves(ns, Root) = {}
                /\ elements(ns[Root].untried_moves) \cup tried_moves(ns, Root)
                       = elements(Game_all_moves(game))

\* ------------------------------------------------------------------ C26
RECURSIVE nth_ancestor(_, _, _)
\* the node k parent links above n; None when the chain ends before
nth_ancestor(ns, n, k) ==
    IF k = 0 THEN Some(n)
    ELSE IF ns[n].parent = None THEN None
    ELSE nth_ancestor(ns, ns[n].parent[1], k - 1)

\* how many times node c is listed among the children of node p
times_child_of(ns, p, c) ==
    Cardinality({i \in 1..Len(ns[p].children) : ns[p].children[i] = c})

\* C26: the tree is a strict hierarchy. The root has no parent and is no
\* node's child; every other node has one parent, which lists it exactly
\* once among its children, and no other node lists it; every child listed
\* is a node whose parent link points back; from every node fewer parent
\* links than there are nodes lead to the root.
C26_StrictHierarchy ==
    nodes # << >> =>
        /\ nodes[Root].parent = None
        /\ \A p \in 1..Len(nodes) : times_child_of(nodes, p, Root) = 0
        /\ \A n \in 2..Len(nodes) :
              /\ nodes[n].parent # None
              /\ nodes[n].parent[1] \in 1..Len(nodes)
              /\ nodes[n].parent[1] # n
              /\ \A p \in 1..Len(nodes) :
                    times_child_of(nodes, p, n) =
                        IF p = nodes[n].parent[1] THEN 1 ELSE 0
        /\ \A p \in 1..Len(nodes) : \A i \in 1..Len(nodes[p].children) :
              /\ nodes[p].children[i] \in 2..Len(nodes)
              /\ nodes[nodes[p].children[i]].parent = Some(p)
        /\ \A n \in 1..Len(nodes) :
              \E k \in 0..(Len(nodes) - 1) : nth_ancestor(nodes, n, k) = Some(Root)

\* a tree with a node two levels below the root and a node with two
\* children, after a select has sorted children
C26_Witness ==
    /\ pc = "loop"
    /\ iter >= 3
    /\ \E n \in 1..Len(nodes) : nth_ancestor(nodes, n, 2) = Some(Root)
    /\ \E p \in 1..Len(nodes) : Len(nodes[p].children) >= 2

\* ------------------------------------------------------------------ C27
\* the nodes select_most_promising_child can be called on: those
\* best_unexplored_node descends through
selectable(ns, n) == ns[n].untried_moves = << >> /\ ns[n].children # << >>

\* C27: whenever select_most_promising_child runs (in the select step, from
\* the tree the previous iterations left), the node it runs on has visits
\* >= 1 and so has each of its children, no expectation is NaN, and the
\* panic of the sort on a non-total comparison is never reached.
C27_NoExpectationOnUnvisited ==
    /\ panic_msg # Some("non-total comparison")
    /\ (pc = "loop" /\ nodes # << >>) =>
          \A n \in 1..Len(nodes) :
              selectable(nodes, n) =>
                  /\ nodes[n].visits >= 1
                  /\ ~sort_panics(nodes, n)
                  /\ \A i \in 1..Len(nodes[n].children) :
                        /\ nodes[nodes[n].children[i]].visits >= 1
                        /\ ~expectation_is_nan(nodes[nodes[n].children[i]],
                                               nodes[n].visits)

\* the select step has just descended from a root with two children, whose
\* expectations the sort compared
C27_Witness ==
    /\ pc = "expand"
    /\ node_ref # Root
    /\ selectable(nodes, Root)
    /\ Len(nodes[Root].children) >= 2
    /\ \A i \in 1..Len(nodes[Root].children) :
          nodes[nodes[Root].children[i]].visits >= 1

\* ------------------------------------------------------------------ C28
\* the place of node c among the children of n
child_position(ns, n, c) ==
    CHOOSE i \in 1..Len(ns[n].children) : ns[n].children[i] = c

\* what C28 asks of a call of select_most_promising_child on node n
selects_first_of_best(ns, n) ==
    LET sel == select_most_promising_child(ns, n)
        before == ns[n].children
        after == sel.nodes[n].children
        score(c) == expectation(ns[c], ns[n].visits)
    IN  /\ sel.child \in elements(before)
        /\ \A c \in elements(before) : score(c) <= score(sel.child)
        /\ \A i \in 1..(child_position(ns, n, sel.child) - 1) :
              score(before[i]) < score(sel.child)
        /\ sel.child = after[1]
        /\ Len(after) = Len(before)
        /\ elements(after) = elements(before)
        /\ \A i \in 1..(Len(after) - 1) : score(after[i]) >= score(after[i + 1])
        /\ \A i, j \in 1..Len(after) :
              (i < j /\ score(after[i]) = score(after[j])) =>
                  child_position(ns, n, after[i]) < child_position(ns, n, after[j])
        /\ sel.nodes = [ns EXCEPT ![n].children = after]

\* C28: select_most_promising_child returns a child whose expectation is
\* maximal among the children and, among the children of maximal
\* expectation, the first in the order before the call; it leaves the
\* children in descending order of expectation with equal ones in their
\* previous order, and changes nothing else in the tree. Checked on every
\* node a select step can call it on, and on the tree a select step leaves.
C28_SelectsFirstOfBest ==
    /\ (pc = "loop" /\ nodes # << >>) =>
          \A n \in 1..Len(nodes) :
              selectable(nodes, n) => selects_first_of_best(nodes, n)
    /\ pc = "expand" =>
          \A k \in 1..(Len(nodes) - 1) :
              nth_ancestor(nodes, node_ref, k) # None =>
                  LET n == nth_ancestor(nodes, node_ref, k)[1]
                  IN  nth_ancestor(nodes, node_ref, k - 1) =
                          Some(nodes[n].children[1])

\* a select is about to run on a root whose two best children have the same
\* expectation, the second of them last in the order; and the sort is going
\* to change the order of the children
C28_Witness ==
    /\ pc = "loop"
    /\ loop_continues(iter, max_iters)
    /\ selectable(nodes, Root)
    /\ Len(nodes[Root].children) >= 3
    /\ LET sel == select_most_promising_child(nodes, Root)
           cs == nodes[Root].children
       IN  /\ sel.nodes[Root].children # cs
           /\ \E i \in 1..Len(cs) :
                 /\ cs[i] # sel.child
                 /\ expectation(nodes[cs[i]], nodes[Root].visits) =
                        expectation(nodes[sel.child], nodes[Root].visits)

\* ------------------------------------------------------------------ C29
\* node n has a child that has a child
has_grandchild(ns, n) ==
    \E i \in 1..Len(ns[n].children) : ns[ns[n].children[i]].children # << >>

\* C29: the node the select step returns has an untried move or no child,
\* and every node the step descended through (the strict ancestors of the
\* node returned) has no untried move and at least one child; in every
\* reachable tree a node with a grandchild has no untried move left.
C29_DescendsThroughExpandedNodes ==
    /\ pc = "expand" =>
          /\ ~selectable(nodes, node_ref)
          /\ \A n \in path_to_root(nodes, node_ref) \ {node_ref} :
                selectable(nodes, n)
    /\ nodes # << >> =>
          \A n \in 1..Len(nodes) :
              has_grandchild(nodes, n) => nodes[n].untried_moves = << >>

\* the select step has descended from the root, all of whose moves are
\* expanded, to a child with an untried move, in a tree where the root has a
\* grandchild already
C29_Witness ==
    /\ pc = "expand"
    /\ node_ref # Root
    /\ selectable(nodes, Root)
    /\ nodes[node_ref].untried_moves # << >>
    /\ has_grandchild(nodes, Root)

\* ------------------------------------------------------------------ C30
\* C30: the expand step on a node with an untried move removes exactly one
\* move m from the node's untried_moves (the others keep their order) and
\* appends exactly one child, a new node with last_move = m, state =
\* make_move(state of the node, m), untried_moves = all_moves of that state,
\* wins = 0, visits = 0, no children, the node as parent and player_just_moved
\* = the active player of the node's state before the move; the node's state,
\* wins and visits and every other node are unchanged.
C30_ExpandAddsOneChild ==
    [][(pc = "expand" /\ nodes[node_ref].untried_moves # << >>) =>
        LET parent == nodes[node_ref]
            child == nodes'[Len(nodes')]
        IN  /\ Len(nodes') = Len(nodes) + 1
            /\ node_ref' = Len(nodes')
            /\ \E k \in 1..Len(parent.untried_moves) :
                  /\ child.last_move = Some(parent.untried_moves[k])
                  /\ nodes'[node_ref].untried_moves =
                         SubSeq(parent.untried_moves, 1, k - 1)
                         \o SubSeq(parent.untried_moves, k + 1,
                                   Len(parent.untried_moves))
            /\ nodes'[node_ref].children = parent.children \o <<Len(nodes')>>
            /\ child.state = [total |-> parent.state.total - child.last_move[1],
                              player_turn |-> 1 - parent.state.player_turn]
            /\ child.untried_moves = all_moves(child.state)
            /\ child.wins = 0
            /\ child.visits = 0
            /\ child.children = << >>
            /\ child.parent = Some(node_ref)
            /\ child.player_just_moved = parent.state.player_turn
            /\ nodes'[node_ref].state = parent.state
            /\ nodes'[node_ref].wins = parent.wins
            /\ nodes'[node_ref].visits = parent.visits
            /\ nodes'[node_ref].last_move = parent.last_move
            /\ nodes'[node_ref].parent = parent.parent
            /\ nodes'[node_ref].player_just_moved = parent.player_just_moved
            /\ \A n \in 1..Len(nodes) : n # node_ref => nodes'[n] = nodes[n]]_vars

\* an expansion has just added a second child to a visited node below the
\* root, which has an untried move left
C30_Witness ==
    /\ pc = "rollout"
    /\ rollout_moves = 0
    /\ nodes[node_ref].visits = 0
    /\ nodes[node_ref].parent # None
    /\ nodes[node_ref].parent[1] # Root
    /\ LET parent == nodes[nodes[node_ref].parent[1]]
       IN  /\ parent.visits >= 1
           /\ Len(parent.children) >= 2
           /\ parent.untried_moves # << >>
           /\ nodes[node_ref].player_just_moved = parent.state.player_turn
           /\ nodes[node_ref].player_just_moved # parent.player_just_moved

\* ------------------------------------------------------------------ C31
\* C31: a rollout leaves the tree untouched: every step taken between the
\* end of the expand step and the start of backpropagation (a move of the
\* rollout, or the reading of the result) keeps the arena as it was, node
\* for node and state for state, and the working node stays the same
C31_RolloutLeavesTree ==
    [][pc = "rollout" =>
          /\ nodes' = nodes
          /\ Len(nodes') = Len(nodes)
          /\ node_ref' = node_ref
          /\ \A n \in 1..Len(nodes) : nodes'[n].state = nodes[n].state]_vars

\* a rollout of two moves or more has ended and backpropagation is about to
\* start, while the working node still holds the state the rollout began in
C31_Witness ==
    /\ pc = "backprop"
    /\ rollout_moves >= 2
    /\ nodes[node_ref].state # sim
    /\ all_moves(nodes[node_ref].state) # << >>

\* ------------------------------------------------------------------ C32
\* the visits of the children of node n, added up
children_visits(ns, n) == SumVisits(ns, ns[n].children)

\* an iteration has just ended, or the call has returned
iteration_ended == pc \in {"loop", "done"}

\* the visit counts of the nodes below the root: a node whose state has a
\* legal move was visited once when it was created and once for every
\* visit of a child; every node below the root was visited
visits_consistent_below_root(ns) ==
    \A n \in 2..Len(ns) :
        /\ ns[n].visits >= 1
        /\ all_moves(ns[n].state) # << >> =>
               ns[n].visits = 1 + children_visits(ns, n)

\* C32 as stated: at the end of every iteration the root's visits are the
\* sum of its children's visits, whatever the root, and the counts below
\* the root are consistent
C32_VisitsConsistent ==
    iteration_ended =>
        /\ nodes[Root].visits = children_visits(nodes, Root)
        /\ visits_consistent_below_root(nodes)

\* C32: at the end of every iteration the counts below the root are
\* consistent, and the root's visits are the sum of its children's visits
\* when the root state has a legal move; a root without a legal move is
\* the working node of every iteration and counts them with no child
C32_VisitsConsistentFromLiveRoot ==
    iteration_ended =>
        /\ visits_consistent_below_root(nodes)
        /\ IF all_moves(root_state) # << >>
           THEN nodes[Root].visits = children_visits(nodes, Root)
           ELSE /\ nodes[Root].children = << >>
                /\ nodes[Root].visits = iter

\* three iterations or more have ended in a tree with a node below the
\* root that has a child of its own and a childless node at the end of the
\* game
C32_Witness ==
    /\ pc = "loop"
    /\ iter >= 3
    /\ all_moves(root_state) # << >>
    /\ \E n \in 2..Len(nodes) :
           /\ nodes[n].children # << >>
           /\ nodes[n].visits >= 2
    /\ \E n \in 2..Len(nodes) :
           /\ all_moves(nodes[n].state) = << >>
           /\ nodes[n].visits >= 2

\* ------------------------------------------------------------------ C33
\* a pair of searches of one root state with the same max_iters and the
\* same draws (the second rng starts from the first seed): the first as
\* find_best_move builds it, the second with another player as the root's
\* player_just_moved
InitTwins ==
    /\ domain \in Domains
    /\ root_state \in RootStates(TwinTotal)
    /\ max_iters \in 0..TwinIters
    /\ debug = FALSE
    /\ InitSearch
    /\ seed \in randomly_seeded_weak_rng
    /\ rng = seed
    /\ NoGame
    /\ StaticsUntouched

\* the first search is over: keep its tree and its move, and search again
\* from a root that differs in player_just_moved only
TwinCall ==
    /\ call = 1
    /\ pc \in {"done", "panic"}
    /\ call' = 2
    /\ first_move' = best_move
    /\ first_seed' = seed
    /\ first_tree' = nodes
    /\ seed' = seed
    /\ rng' = seed
    /\ \E p \in elements(all_players(root_state)) :
           /\ Some(p) # just_moved(root_state)
           /\ nodes' = <<root_node_moved_by(root_state, p)>>
    /\ iter' = 0
    /\ pc' = "loop"
    /\ node_ref' = Root
    /\ sim' = root_state
    /\ result' = << >>
    /\ best_move' = None
    /\ panic_msg' = None
    /\ expansions' = 0
    /\ dump' = << >>
    /\ rollout_moves' = 0
    /\ UNCHANGED <<statics_vars, input_vars, card_vars>>

NextTwins ==
    \/ SelectStep
    \/ ExpandDrawn
    \/ SkipExpand
    \/ RolloutDrawn
    \/ RolloutEnd
    \/ Backpropagate
    \/ Finish
    \/ TwinCall

SpecTwins == InitTwins /\ [][NextTwins]_vars

\* the fields of a node other than wins and player_just_moved
node_but_credit(nd) ==
    [state |-> nd.state, visits |-> nd.visits, last_move |-> nd.last_move,
     untried_moves |-> nd.untried_moves, parent |-> nd.parent,
     children |-> nd.children]

\* two trees with the same nodes below the root, field for field, and with
\* roots alike in all but wins and player_just_moved
same_below_root(a, b) ==
    /\ Len(a) = Len(b)
    /\ node_but_credit(a[Root]) = node_but_credit(b[Root])
    /\ \A n \in 2..Len(a) : a[n] = b[n]

\* C33: two searches that differ only in the root's player_just_moved and
\* take the same draws end alike: the same move is returned (or both
\* panic), and the trees have the same nodes with the same statistics
\* everywhere below the root; the roots differ in wins and
\* player_just_moved at most
C33_RootMoverIsIrrelevant ==
    (call = 2 /\ pc \in {"done", "panic"}) =>
        /\ best_move = first_move
        /\ same_below_root(nodes, first_tree)

\* the second search has returned a move after choosing among two
\* children or more by their expectation; its root differs from the first
\* one's root in player_just_moved and in wins
C33_Witness ==
    /\ call = 2
    /\ pc = "done"
    /\ best_move # None
    /\ nodes[Root].player_just_moved # first_tree[Root].player_just_moved
    /\ nodes[Root].wins # first_tree[Root].wins
    /\ Len(nodes[Root].children) >= 2
    /\ nodes[Root].untried_moves = << >>
    /\ iter > Len(nodes[Root].children)

\* ------------------------------------------------------------------ C34
\* what the rules engine asserts about the decision d of game g before it
\* applies an answer: a buy needs a buy, the coins and a card left in the
\* pile; an action is played by the active player in the Action phase with
\* an action left, from the hand; a gain needs a card left in the pile;
\* cards to discard or trash are all in the hand at once
decision_is_sound(g, d) ==
    LET kind == d.decision_type.kind
        hand == g.players[d.player + 1].hand
    IN  /\ kind = "BuyCard" =>
              /\ g.buys > 0
              /\ \A c \in elements(d.choices) :
                     /\ lookup_card(c).cost <= g.coins
                     /\ c \in DOMAIN g.piles
                     /\ g.piles[c] > 0
        /\ kind = "PlayAction" =>
              /\ g.actions > 0
              /\ g.phase = "Action"
              /\ d.player = g.active_player
              /\ \A c \in elements(d.choices) : c \in elements(hand)
        /\ kind = "GainCard" =>
              \A c \in elements(d.choices) :
                  c \in DOMAIN g.piles /\ g.piles[c] > 0
        /\ kind \in {"DiscardCards", "TrashCards", "PlayTreasures",
                     "RevealReaction"} =>
              \A i \in 1..Len(Game_all_moves(g)) :
                  subtract_vector(hand, Game_all_moves(g)[i]).ok

\* no move all_moves lists panics, applied by resolve_decision alone or by
\* make_move_mut with the advances that follow
all_moves_apply(w) ==
    \A i \in 1..Len(Game_all_moves(w.game)) :
        /\ resolve_decision(w, Game_all_moves(w.game)[i]).panic = None
        /\ Game_make_move_mut(w, Game_all_moves(w.game)[i]).panic = None

\* C34: every move all_moves returns for the pending decision is applied
\* by resolve_decision and make_move_mut without a panic, the conditions
\* the engine asserts hold for all of them, and no pile count is negative
C34_AllMovesApply ==
    /\ game_panic = None
    /\ \A ci \in DOMAIN game.piles : game.piles[ci] >= 0
    /\ (game_goes_on(World) /\ game.pending_decision # None) =>
           /\ decision_is_sound(game, game.pending_decision[1])
           /\ all_moves_apply(World)

\* a card was trashed for a gain and the gain is pending with a card to
\* choose, while a supply pile is empty
C34_Witness ==
    /\ game_panic = None
    /\ game.pending_decision # None
    /\ game.pending_decision[1].decision_type.kind = "GainCard"
    /\ game.pending_decision[1].choices # << >>
    /\ game.trash_pile # << >>
    /\ \E ci \in DOMAIN game.piles : game.piles[ci] = 0

\* ------------------------------------------------------------------ C35
AdvanceWithPending == Some("Can't advance game with pending decision")

\* make_move_mut with the answer m: when resolve_decision itself leaves a
\* decision (the gain after a trashed card), no advance_game follows and
\* the decision stands; otherwise the advances stop at the first decision
\* created, at the end of the game or at a panic
one_decision_per_resolution(w, m) ==
    LET resolved == resolve_decision(w, m)
        moved == Game_make_move_mut(w, m)
    IN  /\ resolved.panic # AdvanceWithPending
        /\ moved.panic # AdvanceWithPending
        /\ resolved.game.pending_decision # None =>
               /\ moved = resolved
               /\ w.game.pending_decision[1].decision_type.kind = "TrashCards"
               /\ resolved.game.pending_decision[1].decision_type.kind
                      = "GainCard"

\* C35: advance_game is never called while a decision is pending, by
\* run_game or by make_move_mut, so its assertion never fails; a decision
\* that resolve_decision creates is not overwritten by an advance, and a
\* pending decision changes only by being resolved
C35_NoAdvanceWhilePending ==
    /\ game_panic # AdvanceWithPending
    /\ (game_goes_on(World) /\ game.pending_decision = None) =>
           advance_game(World).panic # AdvanceWithPending
    /\ (game_goes_on(World) /\ game.pending_decision # None) =>
           \A i \in 1..Len(Game_all_moves(game)) :
               one_decision_per_resolution(World, Game_all_moves(game)[i])

\* a card was trashed by Remodel: the resolution itself has created the
\* next decision, the gain, and no effect of another card is queued
C35_Witness ==
    /\ game_panic = None
    /\ game.pending_decision # None
    /\ game.pending_decision[1].decision_type.kind = "GainCard"
    /\ game.pending_decision[1].decision_type.arg = "GainToDiscard"
    /\ "Remodel" \in elements(game.play_area)
    /\ Len(game.trash_pile) = 1

\* ------------------------------------------------------------------ C36
RECURSIVE plus_actions_of(_)
\* the actions the PlusActions effects of a list of effects grant
plus_actions_of(effects) ==
    IF effects = << >> THEN 0
    ELSE (IF Head(effects).kind = "PlusActions" THEN Head(effects).n ELSE 0)
         + plus_actions_of(Tail(effects))

RECURSIVE plus_actions_in_play(_)
\* the actions the cards of a play area grant at most: those of the
\* PlusActions effects of every card in it
plus_actions_in_play(area) ==
    IF area = << >> THEN 0
    ELSE plus_actions_of(lookup_card(Head(area)).action_effects)
         + plus_actions_in_play(Tail(area))

\* the action cards played in the current turn: the play area is emptied
\* by Cleanup
actions_played(g) ==
    Len(SelectSeq(g.play_area, LAMBDA c : is_action(lookup_card(c))))

\* C36: within one turn the number of action cards played is at most 1
\* plus the PlusActions granted during the turn, and the Action phase does
\* not offer an action to play when no action remains
C36_ActionsAreConsumed ==
    /\ game_panic = None
    /\ actions_played(game) <= 1 + plus_actions_in_play(game.play_area)
    /\ (game.pending_decision # None
        /\ game.pending_decision[1].decision_type.kind = "PlayAction")
           => game.actions > 0

\* ------------------------------------------------------------------ C37
\* the place of a phase in the order of a turn
phase_rank(phase) ==
    CASE phase = "StartTurn" -> 0
      [] phase = "Action" -> 1
      [] phase = "BuyPlayTreasure" -> 2
      [] phase = "BuyPurchaseCard" -> 3
      [] phase = "Cleanup" -> 4
      [] phase = "EndTurn" -> 5

\* one call of advance_game or resolve_decision takes the game from g to
\* h: inside a turn the phase does not go back; the turn changes only from
\* EndTurn to StartTurn of the next player in round-robin order with the
\* counters reset, and the turn counter goes up by one exactly when the
\* last player hands over to player 0
phase_step_ok(g, h) ==
    IF h.turn = g.turn /\ h.active_player = g.active_player
    THEN phase_rank(h.phase) >= phase_rank(g.phase)
    ELSE /\ g.phase = "EndTurn"
         /\ h.phase = "StartTurn"
         /\ h.active_player = (g.active_player + 1) % Len(g.players)
         /\ h.actions = 1
         /\ h.buys = 1
         /\ h.coins = 0
         /\ h.turn = IF g.active_player = Len(g.players) - 1
                     THEN g.turn + 1 ELSE g.turn

RECURSIVE advances_ok(_)
\* every advance_game call of the loop of make_move_mut, started in w, is
\* such a step
advances_ok(w) ==
    IF w.panic = None /\ ~is_game_over(w.game) /\ w.game.pending_decision = None
    THEN /\ phase_step_ok(w.game, advance_game(w).game)
         /\ advances_ok(advance_game(w))
    ELSE TRUE

\* C37: whatever call comes next in a reachable game (advance_game when
\* nothing is pending, else resolve_decision with a listed move and the
\* advances make_move_mut adds), the phase moves forward inside the turn
\* and only EndTurn is followed by StartTurn of the next player, with
\* actions 1, buys 1, coins 0 and the turn counter raised exactly at the
\* hand-over from the last player to player 0
C37_PhasesMoveForward ==
    /\ game.phase \in {"StartTurn", "Action", "BuyPlayTreasure",
                       "BuyPurchaseCard", "Cleanup", "EndTurn"}
    /\ (game_panic = None /\ ~is_game_over(game)) =>
          IF game.pending_decision = None
          THEN phase_step_ok(game, advance_game(World).game)
          ELSE \A i \in 1..Len(Game_all_moves(game)) :
                  LET resolved == resolve_decision(World,
                                                   Game_all_moves(game)[i])
                  IN  /\ phase_step_ok(game, resolved.game)
                      /\ advances_ok(resolved)

\* player 0 has had a turn, player 1's turn has reached EndTurn with the
\* game not over, and the next advance hands over to player 0 in turn 2
C37_Witness ==
    /\ game_panic = None
    /\ game.phase = "EndTurn"
    /\ game.active_player = 1
    /\ game.turn = 1
    /\ ~is_game_over(game)
    /\ game.pending_decision = None
    /\ game.pending_effects = << >>
    /\ game.players[1].deck # <<"Estate", "Copper", "Copper">>
    /\ advance_game(World).game.turn = 2
    /\ advance_game(World).game.active_player = 0

\* ------------------------------------------------------------------ C38
\* the number of supply piles with no card left
empty_piles(g) == Len(SelectSeq(pile_order(g.piles), LAMBDA c : g.piles[c] = 0))

\* the supply is in a state that ends the game
supply_ends_game(g) == g.piles["Province"] = 0 \/ empty_piles(g) >= 3

\* C38: the game is over exactly in phase EndTurn with the Province pile
\* empty or three supply piles empty; while the supply is in that state in
\* an earlier phase the game goes on, Cleanup of that turn leads to the end
\* of the game, and when the game is over the turn has been cleaned up:
\* no decision is pending, no effect is queued and the play area is empty
C38_GameEndsAtEndOfTurn ==
    /\ is_game_over(game) <=>
           (game.phase = "EndTurn" /\ supply_ends_game(game))
    /\ is_game_over(game) =>
           /\ game.pending_decision = None
           /\ game.pending_effects = << >>
           /\ game.play_area = << >>
    /\ (game_panic = None /\ supply_ends_game(game)
        /\ game.phase = "Cleanup" /\ game.pending_decision = None
        /\ game.pending_effects = << >>) =>
           LET cleaned == advance_game(World).game
           IN  /\ is_game_over(cleaned)
               /\ cleaned.turn = game.turn
               /\ cleaned.active_player = game.active_player
               /\ cleaned.pending_decision = None
               /\ cleaned.pending_effects = << >>

\* the game is over after a turn in which the third supply pile ran out,
\* with Provinces left
C38_Witness ==
    /\ game_panic = None
    /\ is_game_over(game)
    /\ game.piles["Province"] > 0
    /\ game.piles["Copper"] = 0
    /\ empty_piles(game) = 3
    /\ "Copper" \in elements(game.players[game.active_player + 1].hand
                               \o game.players[game.active_player + 1].deck
                               \o game.players[game.active_player + 1].discard)

\* ------------------------------------------------------------------ C39
RECURSIVE is_subsequence(_, _)
\* a is what is left of b after some elements are taken out, in b's order
is_subsequence(a, b) ==
    IF a = << >> THEN TRUE
    ELSE IF b = << >> THEN FALSE
    ELSE IF Head(a) = Head(b) THEN is_subsequence(Tail(a), Tail(b))
    ELSE is_subsequence(a, Tail(b))

\* in a queue every reaction option stands before every effect of a card
reactions_first(effects) ==
    \A i, j \in 1..Len(effects) :
        (effects[i].kind = "ActionEffect" /\ effects[j].kind = "ReactOption")
            => j < i

\* the queue play_action leaves when card c is played by pid as action aid
\* into an empty queue: a reaction option for every opponent in turn order
\* when c is an attack, then the effects of c in the order of the card,
\* each for its targets
queue_after_play(g, pid, aid, c) ==
    LET opponents == players_for_target(Len(g.players), "Opponents", pid)
        options == IF lookup_card(c).is_attack
                   THEN [i \in 1..Len(opponents) |->
                            ReactOption(opponents[i], aid)]
                   ELSE << >>
        queued == queue_all_effects([g EXCEPT !.pending_effects = << >>],
                      pid, aid, lookup_card(c).action_effects)
    IN  options \o queued.pending_effects

\* the next call on game w.game treats the queue as a queue: advance_game
\* takes the head alone and leaves the phase and the turn; a played action
\* finds the queue empty and fills it with the reaction options first; any
\* other answer adds nothing and keeps the order
queue_step_ok(w) ==
    LET g == w.game
    IN  IF g.pending_decision = None
        THEN g.pending_effects # << >> =>
                LET h == advance_game(w).game
                IN  /\ h.pending_effects = Tail(g.pending_effects)
                    /\ h.phase = g.phase
                    /\ h.turn = g.turn
                    /\ h.active_player = g.active_player
                    /\ advance_game(w) =
                          process_effect(
                              [w EXCEPT !.game.pending_effects = Tail(@)],
                              Head(g.pending_effects))
        ELSE \A i \in 1..Len(Game_all_moves(g)) :
                LET m == Game_all_moves(g)[i]
                    h == resolve_decision(w, m).game
                    d == g.pending_decision[1]
                IN  IF d.decision_type.kind = "PlayAction" /\ m # << >>
                    THEN /\ g.pending_effects = << >>
                         /\ h.pending_effects =
                               queue_after_play(g, d.player,
                                   g.current_action_identifier + 1, m[1])
                    ELSE is_subsequence(h.pending_effects, g.pending_effects)

\* C39: queued effects are processed first in, first out, one per
\* advance_game call and before any phase progress; a played attack queues
\* a reaction option for every opponent ahead of all its effects, the
\* queue never holds a reaction option behind an effect, and it holds the
\* effects of one played action only
C39_EffectsAreQueued ==
    /\ reactions_first(game.pending_effects)
    /\ \A i \in 1..Len(game.pending_effects) :
           game.pending_effects[i].aid = game.current_action_identifier
    /\ (game.pending_effects # << >> /\ game.pending_decision = None) =>
           ~is_game_over(game)
    /\ (game_panic = None /\ ~is_game_over(game)) => queue_step_ok(World)

\* Militia has been played against an opponent who holds Moat: the
\* reaction is asked for while the coins and the discard of the attack are
\* still queued, in the order of the card
C39_Witness ==
    /\ game_panic = None
    /\ game.pending_decision # None
    /\ game.pending_decision[1].decision_type.kind = "RevealReaction"
    /\ Len(game.pending_effects) = 2
    /\ game.pending_effects[1].kind = "ActionEffect"
    /\ game.pending_effects[1].action.kind = "PlusCoins"
    /\ game.pending_effects[2].action.kind = "OpponentsDiscardTo"
    /\ game.coins = 0
====
